---- MODULE Spec2Model ----
(***************************************************************************)
(* UART Extension Pack driver.  Link layer of ExtPack_LL_atmega328p.c: the *)
(* send ring buffer, the transmit engine (send_UART_ExtPack_command and    *)
(* the data-register-empty interrupt) and the receive state machine        *)
(* (receive-complete interrupt and the timer-overflow watchdog).  Core:    *)
(* the unit registry and dispatcher of ExtPack.c, the event word of        *)
(* ExtPack_Events.c and the critical zones around them.                    *)
(***************************************************************************)
EXTENDS Integers, Sequences, FiniteSets, TLC

VARIABLES
    send_buf_metadata,                  \* ringbuffer_metadata_t, field data is send_buf[]
    next_data_to_send_is_buffer_pair,   \* 1: next interrupt starts a pair, 0: mid-pair
    next_data_to_send,                  \* second byte of the pair in flight
    UDRIE0,                             \* UCSR0B: data-register-empty interrupt enable
    UDRE0,                              \* UCSR0A: data register empty flag
    UDR0,                               \* last byte written to the UART data register
    tx_shift_busy,                      \* the transmit shift register is shifting a byte out
    SREG_I,                             \* SREG: global interrupt enable flag
    ExtPack_LL_SREG_save,               \* the global interrupt enable flag of the saved SREG
    ret,                                \* return value of the last call
    op,                                 \* the handler or function that ran last
    written,                            \* values accepted by write_buf, in order
    accepted,                           \* <<unit, data>> of the successful send calls
    readout,                            \* values returned by read_buf, in order
    sent,                               \* bytes written to UDR0, in order
    recv_state,                         \* receive state machine state
    received_unit,                      \* pending unit byte
    TOIE0,                              \* TIMSK0: timer overflow interrupt enable
    TOV0,                               \* TIFR0: timer overflow flag
    rx_hist,                            \* receive and timeout events, in order
    dispatched,                         \* calls of process_received_ExtPack_data
    units,                              \* struct unit units[USED_UNITS]
    unit_data,                          \* struct unit_data_storage unit_data[USED_UNITS]
    cb_log,                             \* calls of the units' custom_ISR, in order
    unit_events,                        \* uint64_t unit_events, as the set of its set bits
    fg_pc,                              \* place of the main program inside an event function
    fg_call,                            \* the function call that the main program is in, with its locals
    in_custom_ISR,                      \* a custom_ISR called by the receive handler is running
    custom_ISR_frame,                   \* arguments of the custom_ISR that runs with interrupts enabled
    ev_trace,                           \* the last calls of the event functions
    array_index,                        \* indices used on units[] and unit_data[]
    beyond                              \* writes made behind the end of unit_data[]

vars == <<send_buf_metadata, next_data_to_send_is_buffer_pair, next_data_to_send,
          UDRIE0, UDRE0, UDR0, tx_shift_busy, SREG_I, ExtPack_LL_SREG_save,
          ret, op, written, accepted, readout, sent,
          recv_state, received_unit, TOIE0, TOV0, rx_hist, dispatched,
          units, unit_data, cb_log, unit_events,
          fg_pc, fg_call, in_custom_ISR, custom_ISR_frame, ev_trace, array_index, beyond>>

txvars == <<send_buf_metadata, next_data_to_send_is_buffer_pair, next_data_to_send,
            UDRIE0, UDRE0, UDR0, tx_shift_busy, SREG_I, ExtPack_LL_SREG_save,
            ret, op, written, accepted, readout, sent>>

\* the unit registry and what the dispatcher leaves behind
regvars == <<units, unit_data, cb_log, unit_events, array_index, beyond>>

\* the main program's place in the event functions and the handler context
appvars == <<fg_pc, fg_call, in_custom_ISR, custom_ISR_frame, ev_trace>>

rxvars == <<recv_state, received_unit, TOIE0, TOV0, rx_hist, dispatched, regvars,
            appvars>>

----------------------------------------------------------------------------
(* Program constants *)

EXT_PACK_SUCCESS == 0
EXT_PACK_FAILURE == 1

RECV_UNIT_NEXT_STATE == 0
RECV_DATA_NEXT_STATE == 1
RECV_INVALID_UNIT == 2

USED_UNITS == 64
ACC_MODE0_BIT == 6
ACC_MODE1_BIT == 7
ACK_EVENT == 7
NULL == 0

EXTPACK_UNDEFINED == 0
EXTPACK_ACK_UNIT == 3
EXTPACK_GPIO_UNIT == 4
EXTPACK_UART_UNIT == 5
EXTPACK_SPI_UNIT == 7
EXTPACK_I2C_UNIT == 8
ACK_STATE == 0
\* width of int in bits
IntBits == 16
unit_U02 == 2

(* Bounds of the model *)

\* SEND_BUF_LEN ranges over 0 (queueless) and the even lengths 2 .. 2*MaxHalfBufLen
MaxHalfBufLen == 2
\* number of commands / ring buffer values accepted in one behaviour
MaxAccepted == 5
\* number of bytes received in one behaviour
MaxRxBytes == 4
\* number of bytes received in one behaviour while units are being registered
MaxRegBytes == 3
\* number of bytes received in one behaviour while several units are registered
MaxUnitBytes == 2

BufLens == {0} \cup {2 * k : k \in 1..MaxHalfBufLen}

\* unit bytes (address 3, access modes 0 and 1) and data bytes used by the callers
Units == {3, 67}
Data == {65, 255}

\* bytes seen on the receive line
RxBytes == {3, 65}
\* frame / parity error flags of UCSR0A that come with a received byte
ErrFlags == {{}, {"FE0"}, {"UPE0"}}

\* the unit that the application registers, the types it registers it with
\* and its callbacks (NULL: none, 1: a function of the application)
RegUnits == {3}
RegTypes == {EXTPACK_UNDEFINED, EXTPACK_ACK_UNIT, EXTPACK_GPIO_UNIT, EXTPACK_UART_UNIT}
CustomISRs == {NULL, 1}
\* number of pairs accepted in one behaviour of the buffered engine alone
MaxFairSends == 3
\* number of send_to_ExtPack calls accepted in one behaviour
MaxSendCalls == 1
\* number of bytes received in one behaviour next to send_to_ExtPack calls
MaxSendBytes == 2
\* unit types of the units that send_to_ExtPack keeps output values for
SendTypes == {EXTPACK_GPIO_UNIT, EXTPACK_ACK_UNIT}
\* data bytes passed to send_to_ExtPack
SendData == {0, 65}
\* unit_type values that the memory behind the end of units[] may hold
BeyondTypes == {EXTPACK_UNDEFINED, EXTPACK_SPI_UNIT, EXTPACK_ACK_UNIT}
\* number of bytes received in one behaviour with access-mode bits in use
MaxAccBytes == 2
\* received unit bytes for address 3: access mode 0, 1 and 2
AccBytes == {3, 67, 131}
\* number of acknowledgements received in one behaviour
MaxAcks == 2
\* number of pairs accepted in one behaviour of the unit helpers
MaxHelperSends == 2
\* number of characters in front of the terminating '\0' of a string
MaxStrLen == 3
\* the callback of main.c that enables interrupts, as value of custom_ISR
unit_U03_custom_ISR == 2
\* the units registered side by side
InitUnits == {3, 63}

\* the units whose event bit the callers set, clear and read
EvUnits == {0, 16, 63}
\* the number of calls that ev_trace keeps
TraceLen == 3
\* number of commands sent while the main program is inside the event functions
MaxCsSends == 1
\* the event functions that enter a critical zone
CriticalEventFns == {"set_ExtPack_event", "clear_ExtPack_event"}

----------------------------------------------------------------------------
(* Ring buffer: ExtPack_Ringbuffer_Internal.c *)

init_ringbuffer_metadata(buf, buf_len) ==
    [data |-> buf,
     buf_len |-> buf_len,
     free_slots |-> buf_len,
     next_read_slot_index |-> 0,
     next_write_slot_index |-> 0]

is_buf_full(metadata) == metadata.free_slots = 0

is_buf_empty(metadata) == metadata.free_slots = metadata.buf_len

\* write_buf that forgets free_slots--
write_buf_no_decrement(metadata, data) ==
    IF metadata.free_slots = 0
    THEN [ret |-> EXT_PACK_FAILURE, metadata |-> metadata]
    ELSE [ret |-> EXT_PACK_SUCCESS,
          metadata |->
            [metadata EXCEPT
               !.data[metadata.next_write_slot_index] = data,
               !.next_write_slot_index =
                   (metadata.next_write_slot_index + 1) % metadata.buf_len]]

\* write_buf that stores the value before it tests free_slots
write_buf_store_first(metadata, data) ==
    IF metadata.free_slots = 0
    THEN [ret |-> EXT_PACK_FAILURE,
          metadata |->
            IF metadata.buf_len = 0 THEN metadata
            ELSE [metadata EXCEPT !.data[metadata.next_write_slot_index] = data]]
    ELSE [ret |-> EXT_PACK_SUCCESS,
          metadata |->
            [metadata EXCEPT
               !.data[metadata.next_write_slot_index] = data,
               !.next_write_slot_index =
                   (metadata.next_write_slot_index + 1) % metadata.buf_len,
               !.free_slots = metadata.free_slots - 1]]

\* write_buf that keeps one slot unused (free_slots <= 1 taken as full)
write_buf_off_by_one(metadata, data) ==
    IF metadata.free_slots <= 1
    THEN [ret |-> EXT_PACK_FAILURE, metadata |-> metadata]
    ELSE [ret |-> EXT_PACK_SUCCESS,
          metadata |->
            [metadata EXCEPT
               !.data[metadata.next_write_slot_index] = data,
               !.next_write_slot_index =
                   (metadata.next_write_slot_index + 1) % metadata.buf_len,
               !.free_slots = metadata.free_slots - 1]]

write_buf(metadata, data) ==
    IF metadata.free_slots = 0
    THEN [ret |-> EXT_PACK_FAILURE, metadata |-> metadata]
    ELSE [ret |-> EXT_PACK_SUCCESS,
          metadata |->
            [metadata EXCEPT
               !.data[metadata.next_write_slot_index] = data,
               !.next_write_slot_index =
                   (metadata.next_write_slot_index + 1) % metadata.buf_len,
               !.free_slots = metadata.free_slots - 1]]

\* read_buf that forgets to advance next_read_slot_index
read_buf_no_advance(metadata, data) ==
    IF metadata.free_slots = metadata.buf_len
    THEN [ret |-> EXT_PACK_FAILURE, metadata |-> metadata, data |-> data]
    ELSE [ret |-> EXT_PACK_SUCCESS,
          metadata |-> [metadata EXCEPT !.free_slots = metadata.free_slots + 1],
          data |-> metadata.data[metadata.next_read_slot_index]]

\* data is the value *data holds before the call; it is kept on failure
read_buf(metadata, data) ==
    IF metadata.free_slots = metadata.buf_len
    THEN [ret |-> EXT_PACK_FAILURE, metadata |-> metadata, data |-> data]
    ELSE [ret |-> EXT_PACK_SUCCESS,
          metadata |->
            [metadata EXCEPT
               !.next_read_slot_index =
                   (metadata.next_read_slot_index + 1) % metadata.buf_len,
               !.free_slots = metadata.free_slots + 1],
          data |-> metadata.data[metadata.next_read_slot_index]]

----------------------------------------------------------------------------
(* Initial state: the globals' initialisers and init_ExtPack_LL *)

\* the 16-bit ring buffer entry of a command
buf_data_of(unit, data) == ((unit * 256) % 65536) + data

\* #if SEND_BUF_LEN > 0
Buffered == send_buf_metadata.buf_len > 0

Init ==
    /\ \E len \in BufLens :
          send_buf_metadata =
              init_ringbuffer_metadata([i \in 0..(len - 1) |-> 0], len)
    /\ next_data_to_send_is_buffer_pair = 1
    /\ next_data_to_send = 0
    /\ UDRIE0 = FALSE
    /\ UDRE0 = TRUE
    /\ UDR0 = 0
    /\ tx_shift_busy = FALSE
    /\ SREG_I = TRUE
    /\ ExtPack_LL_SREG_save = FALSE
    /\ ret = EXT_PACK_SUCCESS
    /\ op = "init"
    /\ written = <<>>
    /\ accepted = <<>>
    /\ readout = <<>>
    /\ sent = <<>>
    /\ recv_state = RECV_UNIT_NEXT_STATE
    /\ received_unit = 0
    /\ TOIE0 = FALSE
    /\ TOV0 = FALSE
    /\ rx_hist = <<>>
    /\ dispatched = <<>>
    /\ units = [u \in 0..(USED_UNITS - 1) |->
                  [unit_type |-> EXTPACK_UNDEFINED, custom_ISR |-> NULL]]
    /\ unit_data = [u \in 0..(USED_UNITS - 1) |->
                      [input_values |-> 0, output_values |-> 0]]
    /\ cb_log = <<>>
    /\ unit_events = {}
    /\ fg_pc = "idle"
    /\ fg_call = [fn |-> "none", unit |-> 0, I_before |-> TRUE]
    /\ in_custom_ISR = FALSE
    /\ custom_ISR_frame = <<>>
    /\ ev_trace = <<>>
    /\ array_index = {}
    /\ beyond = <<>>

----------------------------------------------------------------------------
(* Direct use of the ring buffer *)

WriteBuf(data) ==
    /\ Len(written) < MaxAccepted
    /\ LET w == write_buf(send_buf_metadata, data) IN
         /\ send_buf_metadata' = w.metadata
         /\ ret' = w.ret
         /\ written' = IF w.ret = EXT_PACK_SUCCESS THEN Append(written, data) ELSE written
    /\ op' = "write_buf"
    /\ UNCHANGED <<next_data_to_send_is_buffer_pair, next_data_to_send, UDRIE0, UDRE0,
                   UDR0, accepted, readout, sent>>
    /\ UNCHANGED tx_shift_busy
    /\ ExtPack_LL_SREG_save' = SREG_I
    /\ UNCHANGED SREG_I
    /\ UNCHANGED rxvars

ReadBuf ==
    /\ LET r == read_buf(send_buf_metadata, 0) IN
         /\ send_buf_metadata' = r.metadata
         /\ ret' = r.ret
         /\ readout' = IF r.ret = EXT_PACK_SUCCESS THEN Append(readout, r.data) ELSE readout
    /\ op' = "read_buf"
    /\ UNCHANGED <<next_data_to_send_is_buffer_pair, next_data_to_send, UDRIE0, UDRE0,
                   UDR0, written, accepted, sent>>
    /\ UNCHANGED tx_shift_busy
    /\ ExtPack_LL_SREG_save' = SREG_I
    /\ UNCHANGED SREG_I
    /\ UNCHANGED rxvars

NextRB ==
    \/ \E unit \in Units, data \in Data : WriteBuf(buf_data_of(unit, data))
    \/ ReadBuf

SpecRB == Init /\ [][NextRB]_vars

----------------------------------------------------------------------------
(* Transmit engine *)

\* the queueless send without the test of UDRE0
send_UART_ExtPack_command_no_udre_test(unit, data) ==
    /\ Len(written) < MaxAccepted
    /\ op' = "send"
    /\ IF Buffered
       THEN LET is_first_command == is_buf_empty(send_buf_metadata)
                buf_data == buf_data_of(unit, data)
                w == write_buf(send_buf_metadata, buf_data)
            IN /\ send_buf_metadata' = w.metadata
               /\ UDRIE0' = IF is_first_command /\ w.ret = EXT_PACK_SUCCESS
                            THEN TRUE ELSE UDRIE0
               /\ ret' = w.ret
               /\ written' = IF w.ret = EXT_PACK_SUCCESS
                             THEN Append(written, buf_data) ELSE written
               /\ accepted' = IF w.ret = EXT_PACK_SUCCESS
                              THEN Append(accepted, <<unit, data>>) ELSE accepted
               /\ UNCHANGED <<next_data_to_send_is_buffer_pair, next_data_to_send,
                              UDRE0, UDR0, readout, sent>>
       ELSE IF ~UDRIE0
            THEN /\ UDR0' = unit
                 /\ UDRE0' = FALSE
                 /\ sent' = Append(sent, unit)
                 /\ next_data_to_send' = data
                 /\ UDRIE0' = TRUE
                 /\ ret' = EXT_PACK_SUCCESS
                 /\ written' = Append(written, buf_data_of(unit, data))
                 /\ accepted' = Append(accepted, <<unit, data>>)
                 /\ UNCHANGED <<send_buf_metadata, next_data_to_send_is_buffer_pair,
                                readout>>
            ELSE /\ ret' = EXT_PACK_FAILURE
                 /\ UNCHANGED <<send_buf_metadata, next_data_to_send_is_buffer_pair,
                                next_data_to_send, UDRIE0, UDRE0, UDR0, written,
                                accepted, readout, sent>>
    /\ UNCHANGED tx_shift_busy
    /\ ExtPack_LL_SREG_save' = IF Buffered THEN FALSE ELSE ExtPack_LL_SREG_save
    /\ SREG_I' = TRUE
    /\ UNCHANGED rxvars

\* the queueless send without the test of UDRIE0
send_UART_ExtPack_command_no_udrie_test(unit, data) ==
    /\ Len(written) < MaxAccepted
    /\ op' = "send"
    /\ IF Buffered
       THEN LET is_first_command == is_buf_empty(send_buf_metadata)
                buf_data == buf_data_of(unit, data)
                w == write_buf(send_buf_metadata, buf_data)
            IN /\ send_buf_metadata' = w.metadata
               /\ UDRIE0' = IF is_first_command /\ w.ret = EXT_PACK_SUCCESS
                            THEN TRUE ELSE UDRIE0
               /\ ret' = w.ret
               /\ written' = IF w.ret = EXT_PACK_SUCCESS
                             THEN Append(written, buf_data) ELSE written
               /\ accepted' = IF w.ret = EXT_PACK_SUCCESS
                              THEN Append(accepted, <<unit, data>>) ELSE accepted
               /\ UNCHANGED <<next_data_to_send_is_buffer_pair, next_data_to_send,
                              UDRE0, UDR0, readout, sent>>
       ELSE IF UDRE0
            THEN /\ UDR0' = unit
                 /\ UDRE0' = FALSE
                 /\ sent' = Append(sent, unit)
                 /\ next_data_to_send' = data
                 /\ UDRIE0' = TRUE
                 /\ ret' = EXT_PACK_SUCCESS
                 /\ written' = Append(written, buf_data_of(unit, data))
                 /\ accepted' = Append(accepted, <<unit, data>>)
                 /\ UNCHANGED <<send_buf_metadata, next_data_to_send_is_buffer_pair,
                                readout>>
            ELSE /\ ret' = EXT_PACK_FAILURE
                 /\ UNCHANGED <<send_buf_metadata, next_data_to_send_is_buffer_pair,
                                next_data_to_send, UDRIE0, UDRE0, UDR0, written,
                                accepted, readout, sent>>
    /\ UNCHANGED tx_shift_busy
    /\ ExtPack_LL_SREG_save' = IF Buffered THEN FALSE ELSE ExtPack_LL_SREG_save
    /\ SREG_I' = TRUE
    /\ UNCHANGED rxvars

\* what send_UART_ExtPack_command does to the link layer
send_UART_ExtPack_message(unit, data) ==
    /\ Len(written) < MaxAccepted
    /\ op' = "send"
    /\ IF Buffered
       THEN LET is_first_command == is_buf_empty(send_buf_metadata)
                buf_data == buf_data_of(unit, data)
                w == write_buf(send_buf_metadata, buf_data)
            IN /\ send_buf_metadata' = w.metadata
               /\ UDRIE0' = IF is_first_command /\ w.ret = EXT_PACK_SUCCESS
                            THEN TRUE ELSE UDRIE0
               /\ ret' = w.ret
               /\ written' = IF w.ret = EXT_PACK_SUCCESS
                             THEN Append(written, buf_data) ELSE written
               /\ accepted' = IF w.ret = EXT_PACK_SUCCESS
                              THEN Append(accepted, <<unit, data>>) ELSE accepted
               /\ UNCHANGED <<next_data_to_send_is_buffer_pair, next_data_to_send,
                              UDRE0, UDR0, readout, sent>>
       ELSE IF UDRE0 /\ ~UDRIE0
            THEN /\ UDR0' = unit
                 /\ UDRE0' = FALSE
                 /\ sent' = Append(sent, unit)
                 /\ next_data_to_send' = data
                 /\ UDRIE0' = TRUE
                 /\ ret' = EXT_PACK_SUCCESS
                 /\ written' = Append(written, buf_data_of(unit, data))
                 /\ accepted' = Append(accepted, <<unit, data>>)
                 /\ UNCHANGED <<send_buf_metadata, next_data_to_send_is_buffer_pair,
                                readout>>
            ELSE /\ ret' = EXT_PACK_FAILURE
                 /\ UNCHANGED <<send_buf_metadata, next_data_to_send_is_buffer_pair,
                                next_data_to_send, UDRIE0, UDRE0, UDR0, written,
                                accepted, readout, sent>>
    /\ UNCHANGED tx_shift_busy
    /\ ExtPack_LL_SREG_save' = IF Buffered THEN FALSE ELSE ExtPack_LL_SREG_save
    /\ SREG_I' = TRUE

send_UART_ExtPack_command(unit, data) ==
    /\ send_UART_ExtPack_message(unit, data)
    /\ UNCHANGED rxvars

\* the data-register-empty handler without next_data_to_send_is_buffer_pair = 0
USART_UDRE_vect_no_midpair ==
    /\ SREG_I
    /\ UDRIE0
    /\ UDRE0
    /\ op' = "udre_isr"
    /\ IF Buffered
       THEN IF next_data_to_send_is_buffer_pair = 1
            THEN LET r == read_buf(send_buf_metadata, 0) IN
                   /\ send_buf_metadata' = r.metadata
                   /\ IF r.ret = EXT_PACK_SUCCESS
                      THEN /\ UDR0' = (r.data \div 256) % 256
                           /\ UDRE0' = FALSE
                           /\ sent' = Append(sent, (r.data \div 256) % 256)
                           /\ next_data_to_send' = r.data % 256
                           /\ readout' = Append(readout, r.data)
                           /\ UNCHANGED <<UDRIE0, next_data_to_send_is_buffer_pair>>
                      ELSE /\ UDRIE0' = FALSE
                           /\ UNCHANGED <<UDR0, UDRE0, sent, next_data_to_send,
                                          next_data_to_send_is_buffer_pair, readout>>
            ELSE /\ next_data_to_send_is_buffer_pair' = 1
                 /\ UDR0' = next_data_to_send
                 /\ UDRE0' = FALSE
                 /\ sent' = Append(sent, next_data_to_send)
                 /\ UDRIE0' = IF is_buf_empty(send_buf_metadata) THEN FALSE ELSE UDRIE0
                 /\ UNCHANGED <<send_buf_metadata, next_data_to_send, readout>>
       ELSE /\ UDR0' = next_data_to_send
            /\ UDRE0' = FALSE
            /\ sent' = Append(sent, next_data_to_send)
            /\ UDRIE0' = FALSE
            /\ UNCHANGED <<send_buf_metadata, next_data_to_send,
                           next_data_to_send_is_buffer_pair, readout>>
    /\ UNCHANGED <<ret, written, accepted>>
    /\ UNCHANGED tx_shift_busy
    /\ ExtPack_LL_SREG_save' =
          IF Buffered /\ next_data_to_send_is_buffer_pair = 1
          THEN FALSE ELSE ExtPack_LL_SREG_save
    /\ UNCHANGED SREG_I
    /\ UNCHANGED rxvars

\* the data-register-empty handler that disables itself after every data byte
USART_UDRE_vect_always_disables ==
    /\ SREG_I
    /\ UDRIE0
    /\ UDRE0
    /\ op' = "udre_isr"
    /\ IF Buffered
       THEN IF next_data_to_send_is_buffer_pair = 1
            THEN LET r == read_buf(send_buf_metadata, 0) IN
                   /\ send_buf_metadata' = r.metadata
                   /\ IF r.ret = EXT_PACK_SUCCESS
                      THEN /\ UDR0' = (r.data \div 256) % 256
                           /\ UDRE0' = FALSE
                           /\ sent' = Append(sent, (r.data \div 256) % 256)
                           /\ next_data_to_send' = r.data % 256
                           /\ next_data_to_send_is_buffer_pair' = 0
                           /\ readout' = Append(readout, r.data)
                           /\ UNCHANGED UDRIE0
                      ELSE /\ UDRIE0' = FALSE
                           /\ UNCHANGED <<UDR0, UDRE0, sent, next_data_to_send,
                                          next_data_to_send_is_buffer_pair, readout>>
            ELSE /\ next_data_to_send_is_buffer_pair' = 1
                 /\ UDR0' = next_data_to_send
                 /\ UDRE0' = FALSE
                 /\ sent' = Append(sent, next_data_to_send)
                 /\ UDRIE0' = FALSE
                 /\ UNCHANGED <<send_buf_metadata, next_data_to_send, readout>>
       ELSE /\ UDR0' = next_data_to_send
            /\ UDRE0' = FALSE
            /\ sent' = Append(sent, next_data_to_send)
            /\ UDRIE0' = FALSE
            /\ UNCHANGED <<send_buf_metadata, next_data_to_send,
                           next_data_to_send_is_buffer_pair, readout>>
    /\ UNCHANGED <<ret, written, accepted>>
    /\ UNCHANGED tx_shift_busy
    /\ ExtPack_LL_SREG_save' =
          IF Buffered /\ next_data_to_send_is_buffer_pair = 1
          THEN FALSE ELSE ExtPack_LL_SREG_save
    /\ UNCHANGED SREG_I
    /\ UNCHANGED rxvars

\* the handler that disables the interrupt as soon as it has read the last
\* entry of the ring buffer
USART_UDRE_vect_disables_after_last_read ==
    /\ SREG_I
    /\ UDRIE0
    /\ UDRE0
    /\ op' = "udre_isr"
    /\ IF Buffered
       THEN IF next_data_to_send_is_buffer_pair = 1
            THEN LET r == read_buf(send_buf_metadata, 0) IN
                   /\ send_buf_metadata' = r.metadata
                   /\ IF r.ret = EXT_PACK_SUCCESS
                      THEN /\ UDR0' = (r.data \div 256) % 256
                           /\ UDRE0' = FALSE
                           /\ sent' = Append(sent, (r.data \div 256) % 256)
                           /\ next_data_to_send' = r.data % 256
                           /\ next_data_to_send_is_buffer_pair' = 0
                           /\ readout' = Append(readout, r.data)
                           /\ UDRIE0' = ~is_buf_empty(r.metadata)
                      ELSE /\ UDRIE0' = FALSE
                           /\ UNCHANGED <<UDR0, UDRE0, sent, next_data_to_send,
                                          next_data_to_send_is_buffer_pair, readout>>
            ELSE /\ next_data_to_send_is_buffer_pair' = 1
                 /\ UDR0' = next_data_to_send
                 /\ UDRE0' = FALSE
                 /\ sent' = Append(sent, next_data_to_send)
                 /\ UDRIE0' = IF is_buf_empty(send_buf_metadata) THEN FALSE ELSE UDRIE0
                 /\ UNCHANGED <<send_buf_metadata, next_data_to_send, readout>>
       ELSE /\ UDR0' = next_data_to_send
            /\ UDRE0' = FALSE
            /\ sent' = Append(sent, next_data_to_send)
            /\ UDRIE0' = FALSE
            /\ UNCHANGED <<send_buf_metadata, next_data_to_send,
                           next_data_to_send_is_buffer_pair, readout>>
    /\ UNCHANGED <<ret, written, accepted>>
    /\ UNCHANGED tx_shift_busy
    /\ ExtPack_LL_SREG_save' =
          IF Buffered /\ next_data_to_send_is_buffer_pair = 1
          THEN FALSE ELSE ExtPack_LL_SREG_save
    /\ UNCHANGED SREG_I
    /\ UNCHANGED rxvars

\* the interrupt is raised while UDRIE0 is set and the data register is empty
USART_UDRE_vect ==
    /\ SREG_I
    /\ UDRIE0
    /\ UDRE0
    /\ op' = "udre_isr"
    /\ IF Buffered
       THEN IF next_data_to_send_is_buffer_pair = 1
            THEN LET r == read_buf(send_buf_metadata, 0) IN
                   /\ send_buf_metadata' = r.metadata
                   /\ IF r.ret = EXT_PACK_SUCCESS
                      THEN /\ UDR0' = (r.data \div 256) % 256
                           /\ UDRE0' = FALSE
                           /\ sent' = Append(sent, (r.data \div 256) % 256)
                           /\ next_data_to_send' = r.data % 256
                           /\ next_data_to_send_is_buffer_pair' = 0
                           /\ readout' = Append(readout, r.data)
                           /\ UNCHANGED UDRIE0
                      ELSE /\ UDRIE0' = FALSE
                           /\ UNCHANGED <<UDR0, UDRE0, sent, next_data_to_send,
                                          next_data_to_send_is_buffer_pair, readout>>
            ELSE /\ next_data_to_send_is_buffer_pair' = 1
                 /\ UDR0' = next_data_to_send
                 /\ UDRE0' = FALSE
                 /\ sent' = Append(sent, next_data_to_send)
                 /\ UDRIE0' = IF is_buf_empty(send_buf_metadata) THEN FALSE ELSE UDRIE0
                 /\ UNCHANGED <<send_buf_metadata, next_data_to_send, readout>>
       ELSE /\ UDR0' = next_data_to_send
            /\ UDRE0' = FALSE
            /\ sent' = Append(sent, next_data_to_send)
            /\ UDRIE0' = FALSE
            /\ UNCHANGED <<send_buf_metadata, next_data_to_send,
                           next_data_to_send_is_buffer_pair, readout>>
    /\ UNCHANGED <<ret, written, accepted>>
    /\ UNCHANGED tx_shift_busy
    /\ ExtPack_LL_SREG_save' =
          IF Buffered /\ next_data_to_send_is_buffer_pair = 1
          THEN FALSE ELSE ExtPack_LL_SREG_save
    /\ UNCHANGED SREG_I
    /\ UNCHANGED rxvars

\* the transmitter moves the data register into its shift register
TxShift ==
    /\ ~UDRE0
    /\ UDRE0' = TRUE
    /\ op' = "tx_shift"
    /\ UNCHANGED <<send_buf_metadata, next_data_to_send_is_buffer_pair,
                   next_data_to_send, UDRIE0, UDR0, ret, written, accepted, readout,
                   sent>>
    /\ UNCHANGED tx_shift_busy
    /\ UNCHANGED <<SREG_I, ExtPack_LL_SREG_save>>
    /\ UNCHANGED rxvars

NextTX ==
    \/ \E unit \in Units, data \in Data : send_UART_ExtPack_command(unit, data)
    \/ USART_UDRE_vect
    \/ TxShift

SpecTX == Init /\ [][NextTX]_vars

\* The buffered engine alone, with a program that submits MaxFairSends pairs
InitTXB == Init /\ Buffered

NextTXB ==
    \/ \E unit \in Units, data \in Data :
          Len(written) < MaxFairSends /\ send_UART_ExtPack_command(unit, data)
    \/ USART_UDRE_vect
    \/ TxShift

SpecTXB == InitTXB /\ [][NextTXB]_vars

\* The hardware raises the data-register-empty interrupt for as long as it is
\* enabled and the data register is empty, and the transmitter empties the
\* data register on its own.
SpecTXFair == SpecTXB /\ WF_vars(USART_UDRE_vect) /\ WF_vars(TxShift)

----------------------------------------------------------------------------
(* Queueless transmit engine with the two stages of the transmitter *)

\* the transmitter moves the data register into its shift register once the
\* byte before it has been shifted out; the data register is empty from then on
TxShiftStart ==
    /\ ~UDRE0
    /\ ~tx_shift_busy
    /\ UDRE0' = TRUE
    /\ tx_shift_busy' = TRUE
    /\ op' = "tx_shift"
    /\ UNCHANGED <<send_buf_metadata, next_data_to_send_is_buffer_pair,
                   next_data_to_send, UDRIE0, UDR0, ret, written, accepted, readout,
                   sent>>
    /\ UNCHANGED <<SREG_I, ExtPack_LL_SREG_save>>
    /\ UNCHANGED rxvars

\* the last bit of the byte in the shift register has left the transmitter
TxComplete ==
    /\ tx_shift_busy
    /\ tx_shift_busy' = FALSE
    /\ op' = "tx_complete"
    /\ UNCHANGED <<send_buf_metadata, next_data_to_send_is_buffer_pair,
                   next_data_to_send, UDRIE0, UDRE0, UDR0, ret, written, accepted,
                   readout, sent>>
    /\ UNCHANGED <<SREG_I, ExtPack_LL_SREG_save>>
    /\ UNCHANGED rxvars

\* #if SEND_BUF_LEN == 0
InitTXQ == Init /\ ~Buffered

NextTXQ ==
    \/ \E unit \in Units, data \in Data : send_UART_ExtPack_command(unit, data)
    \/ USART_UDRE_vect
    \/ TxShiftStart
    \/ TxComplete

SpecTXQ == InitTXQ /\ [][NextTXQ]_vars

----------------------------------------------------------------------------
(* Unit registry and dispatcher: ExtPack.c *)

\* x & (1 << b)
BitSet(x, b) == (x \div (2 ^ b)) % 2 = 1

\* x | (1 << b) for an 8 bit x
WithBit(x, b) == IF BitSet(x, b) THEN x ELSE (x + 2 ^ b) % 256

get_ExtPack_stored_unit_input_values(unit) == unit_data[unit].input_values

get_ExtPack_stored_unit_output_values(unit) == unit_data[unit].output_values

\* the dispatcher with break in place of return for EXTPACK_UNDEFINED
process_received_ExtPack_data_undefined_breaks(unit, data) ==
    IF /\ unit <= USED_UNITS
       /\ ~BitSet(unit, ACC_MODE1_BIT)
       /\ ~BitSet(unit, ACC_MODE0_BIT)
    THEN LET custom_ISR == units[unit].custom_ISR
             unit_type == units[unit].unit_type
             stored ==
                 IF unit_type \in {EXTPACK_GPIO_UNIT, EXTPACK_I2C_UNIT}
                 THEN [unit_data EXCEPT ![unit].input_values = data]
                 ELSE IF unit_type = EXTPACK_ACK_UNIT
                 THEN [unit_data EXCEPT
                          ![unit].input_values = data,
                          ![unit].output_values = WithBit(@, ACK_EVENT)]
                 ELSE unit_data
         IN [unit_data |-> stored,
             custom_ISR |-> custom_ISR,
             input_seen |-> stored[unit].input_values]
    ELSE [unit_data |-> unit_data, custom_ISR |-> NULL, input_seen |-> 0]

\* the dispatcher calling custom_ISR ahead of the switch that stores the data
process_received_ExtPack_data_isr_first(unit, data) ==
    IF /\ unit <= USED_UNITS
       /\ ~BitSet(unit, ACC_MODE1_BIT)
       /\ ~BitSet(unit, ACC_MODE0_BIT)
    THEN LET custom_ISR == units[unit].custom_ISR
             unit_type == units[unit].unit_type
             stored ==
                 IF unit_type \in {EXTPACK_GPIO_UNIT, EXTPACK_I2C_UNIT}
                 THEN [unit_data EXCEPT ![unit].input_values = data]
                 ELSE IF unit_type = EXTPACK_ACK_UNIT
                 THEN [unit_data EXCEPT
                          ![unit].input_values = data,
                          ![unit].output_values = WithBit(@, ACK_EVENT)]
                 ELSE unit_data
         IN IF unit_type = EXTPACK_UNDEFINED
            THEN [unit_data |-> unit_data, custom_ISR |-> NULL, input_seen |-> 0]
            ELSE [unit_data |-> stored,
                  custom_ISR |-> custom_ISR,
                  input_seen |-> unit_data[unit].input_values]
    ELSE [unit_data |-> unit_data, custom_ISR |-> NULL, input_seen |-> 0]

\* the index that process_received_ExtPack_data uses on units[] and unit_data[]
process_received_ExtPack_data_index(unit) ==
    IF /\ unit <= USED_UNITS
       /\ ~BitSet(unit, ACC_MODE1_BIT)
       /\ ~BitSet(unit, ACC_MODE0_BIT)
    THEN {unit} ELSE {}

\* the dispatcher with output_values = (1 << ACK_EVENT) instead of |=
process_received_ExtPack_data_ack_overwrites(unit, data) ==
    IF /\ unit <= USED_UNITS
       /\ ~BitSet(unit, ACC_MODE1_BIT)
       /\ ~BitSet(unit, ACC_MODE0_BIT)
    THEN LET custom_ISR == units[unit].custom_ISR
             unit_type == units[unit].unit_type
             stored ==
                 IF unit_type \in {EXTPACK_GPIO_UNIT, EXTPACK_I2C_UNIT}
                 THEN [unit_data EXCEPT ![unit].input_values = data]
                 ELSE IF unit_type = EXTPACK_ACK_UNIT
                 THEN [unit_data EXCEPT
                          ![unit].input_values = data,
                          ![unit].output_values = 2^ACK_EVENT]
                 ELSE unit_data
         IN IF unit_type = EXTPACK_UNDEFINED
            THEN [unit_data |-> unit_data, custom_ISR |-> NULL, input_seen |-> 0]
            ELSE [unit_data |-> stored,
                  custom_ISR |-> custom_ISR,
                  input_seen |-> stored[unit].input_values]
    ELSE [unit_data |-> unit_data, custom_ISR |-> NULL, input_seen |-> 0]

\* the dispatcher that masks the access-mode bits off instead of testing them
process_received_ExtPack_data_masks_unit(unit, data) ==
    IF unit % 64 < USED_UNITS
    THEN LET custom_ISR == units[unit % 64].custom_ISR
             unit_type == units[unit % 64].unit_type
             stored ==
                 IF unit_type \in {EXTPACK_GPIO_UNIT, EXTPACK_I2C_UNIT}
                 THEN [unit_data EXCEPT ![unit % 64].input_values = data]
                 ELSE IF unit_type = EXTPACK_ACK_UNIT
                 THEN [unit_data EXCEPT
                          ![unit % 64].input_values = data,
                          ![unit % 64].output_values = WithBit(@, ACK_EVENT)]
                 ELSE unit_data
         IN IF unit_type = EXTPACK_UNDEFINED
            THEN [unit_data |-> unit_data, custom_ISR |-> NULL, input_seen |-> 0]
            ELSE [unit_data |-> stored,
                  custom_ISR |-> custom_ISR,
                  input_seen |-> stored[unit % 64].input_values]
    ELSE [unit_data |-> unit_data, custom_ISR |-> NULL, input_seen |-> 0]

\* process_received_ExtPack_data(unit, data): the storage it leaves, the
\* custom_ISR it calls (NULL: none) and the stored input value that a
\* get_ExtPack_stored_unit_input_values(unit) inside that custom_ISR returns
process_received_ExtPack_data(unit, data) ==
    IF /\ unit <= USED_UNITS
       /\ ~BitSet(unit, ACC_MODE1_BIT)
       /\ ~BitSet(unit, ACC_MODE0_BIT)
    THEN LET custom_ISR == units[unit].custom_ISR
             unit_type == units[unit].unit_type
             stored ==
                 IF unit_type \in {EXTPACK_GPIO_UNIT, EXTPACK_I2C_UNIT}
                 THEN [unit_data EXCEPT ![unit].input_values = data]
                 ELSE IF unit_type = EXTPACK_ACK_UNIT
                 THEN [unit_data EXCEPT
                          ![unit].input_values = data,
                          ![unit].output_values = WithBit(@, ACK_EVENT)]
                 ELSE unit_data
         IN IF unit_type = EXTPACK_UNDEFINED
            THEN [unit_data |-> unit_data, custom_ISR |-> NULL, input_seen |-> 0]
            ELSE [unit_data |-> stored,
                  custom_ISR |-> custom_ISR,
                  input_seen |-> stored[unit].input_values]
    ELSE [unit_data |-> unit_data, custom_ISR |-> NULL, input_seen |-> 0]

----------------------------------------------------------------------------
(* Event word: ExtPack_Events.c *)

\* (uint64_t)1 << unit, as the set of the bits that are set in it
event_mask(unit) == {b \in 0..63 : b = unit}

\* (unit_events & ((uint64_t)1 << unit)) > 0
get_ExtPack_event(unit) == IF unit_events \cap event_mask(unit) # {} THEN 1 ELSE 0

----------------------------------------------------------------------------
(* Receive state machine *)

\* errors & ((1<<FE0)|(1<<UPE0))
HasFrameOrParityError(errors) == errors \cap {"FE0", "UPE0"} # {}

\* number of bytes received so far
NBytes == Cardinality({i \in 1..Len(rx_hist) : rx_hist[i].kind = "byte"})

\* the place in rx_hist of the byte that received_unit holds (0: none yet)
ReceivedUnitAt ==
    LET taken == {i \in 1..Len(rx_hist) :
                    rx_hist[i].kind = "byte" /\ rx_hist[i].state = RECV_UNIT_NEXT_STATE}
    IN IF taken = {} THEN 0 ELSE CHOOSE i \in taken : \A j \in taken : j <= i

\* the receive-complete handler without the error test on the unit byte
USART_RX_vect_step_no_unit_check(received_data, errors) ==
    IF recv_state = RECV_UNIT_NEXT_STATE
    THEN [received_unit |-> received_data,
          recv_state |-> RECV_DATA_NEXT_STATE,
          TOV0 |-> FALSE,
          TOIE0 |-> TRUE,
          call |-> <<>>]
    ELSE IF recv_state = RECV_DATA_NEXT_STATE
    THEN IF ~HasFrameOrParityError(errors)
         THEN [received_unit |-> received_unit,
               recv_state |-> RECV_UNIT_NEXT_STATE,
               TOV0 |-> TOV0,
               TOIE0 |-> FALSE,
               call |-> <<received_unit, received_data>>]
         ELSE [received_unit |-> received_unit,
               recv_state |-> recv_state,
               TOV0 |-> TOV0,
               TOIE0 |-> TOIE0,
               call |-> <<>>]
    ELSE IF recv_state = RECV_INVALID_UNIT
    THEN [received_unit |-> received_unit,
          recv_state |-> RECV_UNIT_NEXT_STATE,
          TOV0 |-> TOV0,
          TOIE0 |-> FALSE,
          call |-> <<>>]
    ELSE [received_unit |-> received_unit,
          recv_state |-> recv_state,
          TOV0 |-> TOV0,
          TOIE0 |-> TOIE0,
          call |-> <<>>]

\* the receive-complete handler arming the timer for error-free unit bytes only
USART_RX_vect_step_arm_only_valid(received_data, errors) ==
    IF recv_state = RECV_UNIT_NEXT_STATE
    THEN [received_unit |-> received_data,
          recv_state |-> IF HasFrameOrParityError(errors)
                         THEN RECV_INVALID_UNIT ELSE RECV_DATA_NEXT_STATE,
          TOV0 |-> IF HasFrameOrParityError(errors) THEN TOV0 ELSE FALSE,
          TOIE0 |-> IF HasFrameOrParityError(errors) THEN TOIE0 ELSE TRUE,
          call |-> <<>>]
    ELSE IF recv_state = RECV_DATA_NEXT_STATE
    THEN IF ~HasFrameOrParityError(errors)
         THEN [received_unit |-> received_unit,
               recv_state |-> RECV_UNIT_NEXT_STATE,
               TOV0 |-> TOV0,
               TOIE0 |-> FALSE,
               call |-> <<received_unit, received_data>>]
         ELSE [received_unit |-> received_unit,
               recv_state |-> recv_state,
               TOV0 |-> TOV0,
               TOIE0 |-> TOIE0,
               call |-> <<>>]
    ELSE IF recv_state = RECV_INVALID_UNIT
    THEN [received_unit |-> received_unit,
          recv_state |-> RECV_UNIT_NEXT_STATE,
          TOV0 |-> TOV0,
          TOIE0 |-> FALSE,
          call |-> <<>>]
    ELSE [received_unit |-> received_unit,
          recv_state |-> recv_state,
          TOV0 |-> TOV0,
          TOIE0 |-> TOIE0,
          call |-> <<>>]

\* the receive-complete handler without the error test on the data byte
USART_RX_vect_step_no_data_check(received_data, errors) ==
    IF recv_state = RECV_UNIT_NEXT_STATE
    THEN [received_unit |-> received_data,
          recv_state |-> IF HasFrameOrParityError(errors)
                         THEN RECV_INVALID_UNIT ELSE RECV_DATA_NEXT_STATE,
          TOV0 |-> FALSE,
          TOIE0 |-> TRUE,
          call |-> <<>>]
    ELSE IF recv_state = RECV_DATA_NEXT_STATE
    THEN [received_unit |-> received_unit,
          recv_state |-> RECV_UNIT_NEXT_STATE,
          TOV0 |-> TOV0,
          TOIE0 |-> FALSE,
          call |-> <<received_unit, received_data>>]
    ELSE IF recv_state = RECV_INVALID_UNIT
    THEN [received_unit |-> received_unit,
          recv_state |-> RECV_UNIT_NEXT_STATE,
          TOV0 |-> TOV0,
          TOIE0 |-> FALSE,
          call |-> <<>>]
    ELSE [received_unit |-> received_unit,
          recv_state |-> recv_state,
          TOV0 |-> TOV0,
          TOIE0 |-> TOIE0,
          call |-> <<>>]

\* the receive-complete handler without TIFR0 |= (1 << TOV0)
USART_RX_vect_step_keeps_overflow_flag(received_data, errors) ==
    IF recv_state = RECV_UNIT_NEXT_STATE
    THEN [received_unit |-> received_data,
          recv_state |-> IF HasFrameOrParityError(errors)
                         THEN RECV_INVALID_UNIT ELSE RECV_DATA_NEXT_STATE,
          TOV0 |-> TOV0,
          TOIE0 |-> TRUE,
          call |-> <<>>]
    ELSE IF recv_state = RECV_DATA_NEXT_STATE
    THEN IF ~HasFrameOrParityError(errors)
         THEN [received_unit |-> received_unit,
               recv_state |-> RECV_UNIT_NEXT_STATE,
               TOV0 |-> TOV0,
               TOIE0 |-> FALSE,
               call |-> <<received_unit, received_data>>]
         ELSE [received_unit |-> received_unit,
               recv_state |-> recv_state,
               TOV0 |-> TOV0,
               TOIE0 |-> TOIE0,
               call |-> <<>>]
    ELSE IF recv_state = RECV_INVALID_UNIT
    THEN [received_unit |-> received_unit,
          recv_state |-> RECV_UNIT_NEXT_STATE,
          TOV0 |-> TOV0,
          TOIE0 |-> FALSE,
          call |-> <<>>]
    ELSE [received_unit |-> received_unit,
          recv_state |-> recv_state,
          TOV0 |-> TOV0,
          TOIE0 |-> TOIE0,
          call |-> <<>>]

\* the receive-complete handler without TIMSK0 &= ~(1 << TOIE0) in AwaitData
USART_RX_vect_step_keeps_timer(received_data, errors) ==
    IF recv_state = RECV_UNIT_NEXT_STATE
    THEN [received_unit |-> received_data,
          recv_state |-> IF HasFrameOrParityError(errors)
                         THEN RECV_INVALID_UNIT ELSE RECV_DATA_NEXT_STATE,
          TOV0 |-> FALSE,
          TOIE0 |-> TRUE,
          call |-> <<>>]
    ELSE IF recv_state = RECV_DATA_NEXT_STATE
    THEN IF ~HasFrameOrParityError(errors)
         THEN [received_unit |-> received_unit,
               recv_state |-> RECV_UNIT_NEXT_STATE,
               TOV0 |-> TOV0,
               TOIE0 |-> TOIE0,
               call |-> <<received_unit, received_data>>]
         ELSE [received_unit |-> received_unit,
               recv_state |-> recv_state,
               TOV0 |-> TOV0,
               TOIE0 |-> TOIE0,
               call |-> <<>>]
    ELSE IF recv_state = RECV_INVALID_UNIT
    THEN [received_unit |-> received_unit,
          recv_state |-> RECV_UNIT_NEXT_STATE,
          TOV0 |-> TOV0,
          TOIE0 |-> FALSE,
          call |-> <<>>]
    ELSE [received_unit |-> received_unit,
          recv_state |-> recv_state,
          TOV0 |-> TOV0,
          TOIE0 |-> TOIE0,
          call |-> <<>>]

\* the receive-complete handler that leaves the timer interrupt enabled when
\* it discards the byte after a unit byte with an error
USART_RX_vect_step_discard_keeps_timer(received_data, errors) ==
    IF recv_state = RECV_UNIT_NEXT_STATE
    THEN [received_unit |-> received_data,
          recv_state |-> IF HasFrameOrParityError(errors)
                         THEN RECV_INVALID_UNIT ELSE RECV_DATA_NEXT_STATE,
          TOV0 |-> FALSE,
          TOIE0 |-> TRUE,
          call |-> <<>>]
    ELSE IF recv_state = RECV_DATA_NEXT_STATE
    THEN IF ~HasFrameOrParityError(errors)
         THEN [received_unit |-> received_unit,
               recv_state |-> RECV_UNIT_NEXT_STATE,
               TOV0 |-> TOV0,
               TOIE0 |-> FALSE,
               call |-> <<received_unit, received_data>>]
         ELSE [received_unit |-> received_unit,
               recv_state |-> recv_state,
               TOV0 |-> TOV0,
               TOIE0 |-> TOIE0,
               call |-> <<>>]
    ELSE IF recv_state = RECV_INVALID_UNIT
    THEN [received_unit |-> received_unit,
          recv_state |-> RECV_UNIT_NEXT_STATE,
          TOV0 |-> TOV0,
          TOIE0 |-> TOIE0,
          call |-> <<>>]
    ELSE [received_unit |-> received_unit,
          recv_state |-> recv_state,
          TOV0 |-> TOV0,
          TOIE0 |-> TOIE0,
          call |-> <<>>]

\* the receive-complete handler that has not yet set recv_state and TOIE0
\* when it calls process_received_ExtPack_data
USART_RX_vect_step_state_after_call(received_data, errors) ==
    IF recv_state = RECV_UNIT_NEXT_STATE
    THEN [received_unit |-> received_data,
          recv_state |-> IF HasFrameOrParityError(errors)
                         THEN RECV_INVALID_UNIT ELSE RECV_DATA_NEXT_STATE,
          TOV0 |-> FALSE,
          TOIE0 |-> TRUE,
          call |-> <<>>]
    ELSE IF recv_state = RECV_DATA_NEXT_STATE
    THEN IF ~HasFrameOrParityError(errors)
         THEN [received_unit |-> received_unit,
               recv_state |-> recv_state,
               TOV0 |-> TOV0,
               TOIE0 |-> TOIE0,
               call |-> <<received_unit, received_data>>]
         ELSE [received_unit |-> received_unit,
               recv_state |-> recv_state,
               TOV0 |-> TOV0,
               TOIE0 |-> TOIE0,
               call |-> <<>>]
    ELSE IF recv_state = RECV_INVALID_UNIT
    THEN [received_unit |-> received_unit,
          recv_state |-> RECV_UNIT_NEXT_STATE,
          TOV0 |-> TOV0,
          TOIE0 |-> FALSE,
          call |-> <<>>]
    ELSE [received_unit |-> received_unit,
          recv_state |-> recv_state,
          TOV0 |-> TOV0,
          TOIE0 |-> TOIE0,
          call |-> <<>>]

\* the effect of the receive-complete handler on the state machine; call is
\* the argument list of its process_received_ExtPack_data call, if any
USART_RX_vect_step(received_data, errors) ==
    IF recv_state = RECV_UNIT_NEXT_STATE
    THEN [received_unit |-> received_data,
          recv_state |-> IF HasFrameOrParityError(errors)
                         THEN RECV_INVALID_UNIT ELSE RECV_DATA_NEXT_STATE,
          TOV0 |-> FALSE,
          TOIE0 |-> TRUE,
          call |-> <<>>]
    ELSE IF recv_state = RECV_DATA_NEXT_STATE
    THEN IF ~HasFrameOrParityError(errors)
         THEN [received_unit |-> received_unit,
               recv_state |-> RECV_UNIT_NEXT_STATE,
               TOV0 |-> TOV0,
               TOIE0 |-> FALSE,
               call |-> <<received_unit, received_data>>]
         ELSE [received_unit |-> received_unit,
               recv_state |-> recv_state,
               TOV0 |-> TOV0,
               TOIE0 |-> TOIE0,
               call |-> <<>>]
    ELSE IF recv_state = RECV_INVALID_UNIT
    THEN [received_unit |-> received_unit,
          recv_state |-> RECV_UNIT_NEXT_STATE,
          TOV0 |-> TOV0,
          TOIE0 |-> FALSE,
          call |-> <<>>]
    ELSE [received_unit |-> received_unit,
          recv_state |-> recv_state,
          TOV0 |-> TOV0,
          TOIE0 |-> TOIE0,
          call |-> <<>>]

USART_RX_vect_effect(received_data, errors) ==
    /\ SREG_I
    /\ NBytes < MaxRxBytes
    /\ LET r == USART_RX_vect_step(received_data, errors) IN
         /\ received_unit' = r.received_unit
         /\ recv_state' = r.recv_state
         /\ TOV0' = r.TOV0
         /\ TOIE0' = r.TOIE0
         /\ rx_hist' = Append(rx_hist,
                              [kind |-> "byte",
                               data |-> received_data,
                               err |-> HasFrameOrParityError(errors),
                               state |-> recv_state,
                               next |-> r.recv_state,
                               toie |-> r.TOIE0])
         /\ dispatched' =
               IF r.call = <<>> THEN dispatched
               ELSE Append(dispatched,
                           [unit |-> r.call[1],
                            data |-> r.call[2],
                            unit_at |-> ReceivedUnitAt,
                            at |-> Len(rx_hist) + 1,
                            descr |-> units[r.call[1] % USED_UNITS]])
         /\ IF r.call = <<>>
            THEN UNCHANGED <<unit_data, cb_log>>
            ELSE LET p == process_received_ExtPack_data(r.call[1], r.call[2]) IN
                   /\ unit_data' = p.unit_data
                   /\ cb_log' =
                         IF p.custom_ISR = NULL THEN cb_log
                         ELSE Append(cb_log,
                                     [custom_ISR |-> p.custom_ISR,
                                      unit |-> r.call[1],
                                      data |-> r.call[2],
                                      input_seen |-> p.input_seen,
                                      at |-> Len(rx_hist) + 1])
    /\ LET call == USART_RX_vect_step(received_data, errors).call IN
         array_index' =
            IF call = <<>> THEN array_index
            ELSE array_index \cup process_received_ExtPack_data_index(call[1])
    /\ UNCHANGED <<units, unit_events, beyond>>

\* the receive-complete handler from its entry to its return, custom_ISR
\* included, with no other interrupt inside it
USART_RX_vect(received_data, errors) ==
    /\ USART_RX_vect_effect(received_data, errors)
    /\ UNCHANGED appvars
    /\ UNCHANGED txvars

\* timer/counter0 runs freely and sets its overflow flag when it wraps
TimerOverflow ==
    /\ ~TOV0
    /\ TOV0' = TRUE
    /\ UNCHANGED <<recv_state, received_unit, TOIE0, rx_hist, dispatched>>
    /\ UNCHANGED regvars
    /\ UNCHANGED appvars
    /\ UNCHANGED txvars

\* the overflow handler without TIMSK0 &= ~(1 << TOIE0)
TIMER0_OVF_vect_keeps_enabled ==
    /\ SREG_I
    /\ TOIE0
    /\ TOV0
    /\ TOV0' = FALSE
    /\ recv_state' = RECV_UNIT_NEXT_STATE
    /\ rx_hist' = Append(rx_hist,
                         [kind |-> "timeout",
                          data |-> 0,
                          err |-> FALSE,
                          state |-> recv_state,
                          next |-> RECV_UNIT_NEXT_STATE,
                          toie |-> TOIE0])
    /\ UNCHANGED <<TOIE0, received_unit, dispatched>>
    /\ UNCHANGED regvars
    /\ UNCHANGED appvars
    /\ UNCHANGED txvars

\* raised while TOIE0 and TOV0 are set; running the vector clears TOV0
TIMER0_OVF_vect ==
    /\ SREG_I
    /\ TOIE0
    /\ TOV0
    /\ TOV0' = FALSE
    /\ recv_state' = RECV_UNIT_NEXT_STATE
    /\ TOIE0' = FALSE
    /\ rx_hist' = Append(rx_hist,
                         [kind |-> "timeout",
                          data |-> 0,
                          err |-> FALSE,
                          state |-> recv_state,
                          next |-> RECV_UNIT_NEXT_STATE,
                          toie |-> FALSE])
    /\ UNCHANGED <<received_unit, dispatched>>
    /\ UNCHANGED regvars
    /\ UNCHANGED appvars
    /\ UNCHANGED txvars

NextRX ==
    \/ \E received_data \in RxBytes, errors \in ErrFlags :
          USART_RX_vect(received_data, errors)
    \/ TimerOverflow
    \/ TIMER0_OVF_vect

SpecRX == Init /\ [][NextRX]_vars

\* the timer keeps counting and its interrupt is served
SpecRXFair == SpecRX /\ WF_vars(TimerOverflow) /\ WF_vars(TIMER0_OVF_vect)

----------------------------------------------------------------------------
(* Receive path with units being registered *)

\* init_ExtPack_Unit that leaves a custom_ISR that is already set in place
init_ExtPack_Unit_keeps_ISR(us, unit, unit_type, custom_ISR) ==
    [us EXCEPT ![unit] =
        [unit_type |-> unit_type,
         custom_ISR |-> IF us[unit].custom_ISR # NULL
                        THEN us[unit].custom_ISR ELSE custom_ISR]]

\* the array units[] that init_ExtPack_Unit leaves when it is called on us
init_ExtPack_Unit_on(us, unit, unit_type, custom_ISR) ==
    [us EXCEPT ![unit] = [unit_type |-> unit_type, custom_ISR |-> custom_ISR]]

init_ExtPack_Unit(unit, unit_type, custom_ISR) ==
    /\ units' = init_ExtPack_Unit_on(units, unit, unit_type, custom_ISR)
    /\ UNCHANGED <<unit_data, cb_log, unit_events, array_index, beyond>>
    /\ UNCHANGED <<recv_state, received_unit, TOIE0, TOV0, rx_hist, dispatched>>
    /\ UNCHANGED appvars
    /\ UNCHANGED txvars

set_ExtPack_custom_ISR(unit, new_custom_ISR) ==
    /\ units' = [units EXCEPT ![unit].custom_ISR = new_custom_ISR]
    /\ UNCHANGED <<unit_data, cb_log, unit_events, array_index, beyond>>
    /\ UNCHANGED <<recv_state, received_unit, TOIE0, TOV0, rx_hist, dispatched>>
    /\ UNCHANGED appvars
    /\ UNCHANGED txvars

NextREG ==
    \/ \E unit \in RegUnits, unit_type \in RegTypes, custom_ISR \in CustomISRs :
          init_ExtPack_Unit(unit, unit_type, custom_ISR)
    \/ \E unit \in RegUnits, new_custom_ISR \in CustomISRs :
          set_ExtPack_custom_ISR(unit, new_custom_ISR)
    \/ \E received_data \in RxBytes, errors \in ErrFlags :
          NBytes < MaxRegBytes /\ USART_RX_vect(received_data, errors)
    \/ TimerOverflow
    \/ TIMER0_OVF_vect

SpecREG == Init /\ [][NextREG]_vars

----------------------------------------------------------------------------
(* Calls of the event functions *)

\* the driver state that the event functions do not touch
txcore == <<send_buf_metadata, next_data_to_send_is_buffer_pair, next_data_to_send,
            UDRIE0, UDRE0, UDR0, tx_shift_busy, written, accepted, readout, sent>>

\* ev_trace with one more call, cut to the last TraceLen calls
Traced(fn, unit, value) ==
    LET t == Append(ev_trace, [fn |-> fn, unit |-> unit, ret |-> value])
    IN IF Len(t) > TraceLen THEN SubSeq(t, Len(t) - TraceLen + 1, Len(t)) ELSE t

set_ExtPack_event(unit) ==
    /\ ExtPack_LL_SREG_save' = SREG_I
    /\ unit_events' = unit_events \cup event_mask(unit)
    /\ SREG_I' = SREG_I
    /\ op' = "set_ExtPack_event"
    /\ ev_trace' = Traced("set_ExtPack_event", unit, 0)
    /\ UNCHANGED <<ret, txcore>>
    /\ UNCHANGED <<recv_state, received_unit, TOIE0, TOV0, rx_hist, dispatched>>
    /\ UNCHANGED <<units, unit_data, cb_log, fg_pc, fg_call, in_custom_ISR, custom_ISR_frame>>
    /\ UNCHANGED <<array_index, beyond>>

\* clear_ExtPack_event with unit_events ^= mask in place of unit_events &= ~mask
clear_ExtPack_event_toggles(unit) ==
    /\ ExtPack_LL_SREG_save' = SREG_I
    /\ unit_events' = (unit_events \ event_mask(unit))
                          \cup (event_mask(unit) \ unit_events)
    /\ SREG_I' = SREG_I
    /\ op' = "clear_ExtPack_event"
    /\ ev_trace' = Traced("clear_ExtPack_event", unit, 0)
    /\ UNCHANGED <<ret, txcore>>
    /\ UNCHANGED <<recv_state, received_unit, TOIE0, TOV0, rx_hist, dispatched>>
    /\ UNCHANGED <<units, unit_data, cb_log, fg_pc, fg_call, in_custom_ISR, custom_ISR_frame>>
    /\ UNCHANGED <<array_index, beyond>>

clear_ExtPack_event(unit) ==
    /\ ExtPack_LL_SREG_save' = SREG_I
    /\ unit_events' = unit_events \ event_mask(unit)
    /\ SREG_I' = SREG_I
    /\ op' = "clear_ExtPack_event"
    /\ ev_trace' = Traced("clear_ExtPack_event", unit, 0)
    /\ UNCHANGED <<ret, txcore>>
    /\ UNCHANGED <<recv_state, received_unit, TOIE0, TOV0, rx_hist, dispatched>>
    /\ UNCHANGED <<units, unit_data, cb_log, fg_pc, fg_call, in_custom_ISR, custom_ISR_frame>>
    /\ UNCHANGED <<array_index, beyond>>

\* a call of get_ExtPack_event(unit)
call_get_ExtPack_event(unit) ==
    /\ ret' = get_ExtPack_event(unit)
    /\ op' = "get_ExtPack_event"
    /\ ev_trace' = Traced("get_ExtPack_event", unit, get_ExtPack_event(unit))
    /\ UNCHANGED <<SREG_I, ExtPack_LL_SREG_save, unit_events, txcore>>
    /\ UNCHANGED <<recv_state, received_unit, TOIE0, TOV0, rx_hist, dispatched>>
    /\ UNCHANGED <<units, unit_data, cb_log, fg_pc, fg_call, in_custom_ISR, custom_ISR_frame>>
    /\ UNCHANGED <<array_index, beyond>>

reset_ExtPack_events ==
    /\ unit_events' = {}
    /\ op' = "reset_ExtPack_events"
    /\ ev_trace' = Traced("reset_ExtPack_events", 0, 0)
    /\ UNCHANGED <<SREG_I, ExtPack_LL_SREG_save, ret, txcore>>
    /\ UNCHANGED <<recv_state, received_unit, TOIE0, TOV0, rx_hist, dispatched>>
    /\ UNCHANGED <<units, unit_data, cb_log, fg_pc, fg_call, in_custom_ISR, custom_ISR_frame>>
    /\ UNCHANGED <<array_index, beyond>>

NextEV ==
    \/ \E unit \in EvUnits : set_ExtPack_event(unit)
    \/ \E unit \in EvUnits : clear_ExtPack_event(unit)
    \/ \E unit \in EvUnits : call_get_ExtPack_event(unit)
    \/ reset_ExtPack_events

SpecEV == Init /\ [][NextEV]_vars

----------------------------------------------------------------------------
(* Event word of lib/UARTExtPack: the mask is computed as (1 << unit) *)

\* the int value x converted to uint64_t: a set bit 15 is the sign and is
\* copied into the bits 16..63
int_as_uint64(bits) == IF 15 \in bits THEN bits \cup 16..63 ELSE bits

\* (1 << unit) with the 16-bit int of the AVR, converted to uint64_t, as the
\* set of the masks it can be: a shift by 16 or more is undefined, and yields
\* 0 or a shift by the count modulo 16
UARTExtPack_event_mask(unit) ==
    IF unit < IntBits
    THEN {int_as_uint64({unit})}
    ELSE {{}, int_as_uint64({unit % IntBits})}

UARTExtPack_set_ExtPack_event(unit) ==
    \E mask \in UARTExtPack_event_mask(unit) :
        /\ ExtPack_LL_SREG_save' = SREG_I
        /\ unit_events' = unit_events \cup mask
        /\ SREG_I' = SREG_I
        /\ op' = "set_ExtPack_event"
        /\ ev_trace' = Traced("set_ExtPack_event", unit, 0)
        /\ UNCHANGED <<ret, txcore>>
        /\ UNCHANGED <<recv_state, received_unit, TOIE0, TOV0, rx_hist, dispatched>>
        /\ UNCHANGED <<units, unit_data, cb_log, fg_pc, fg_call, in_custom_ISR, custom_ISR_frame>>
        /\ UNCHANGED <<array_index, beyond>>

UARTExtPack_clear_ExtPack_event(unit) ==
    \E mask \in UARTExtPack_event_mask(unit) :
        /\ ExtPack_LL_SREG_save' = SREG_I
        /\ unit_events' = unit_events \ mask
        /\ SREG_I' = SREG_I
        /\ op' = "clear_ExtPack_event"
        /\ ev_trace' = Traced("clear_ExtPack_event", unit, 0)
        /\ UNCHANGED <<ret, txcore>>
        /\ UNCHANGED <<recv_state, received_unit, TOIE0, TOV0, rx_hist, dispatched>>
        /\ UNCHANGED <<units, unit_data, cb_log, fg_pc, fg_call, in_custom_ISR, custom_ISR_frame>>
        /\ UNCHANGED <<array_index, beyond>>

\* a call of get_ExtPack_event(unit): (unit_events & (1 << unit)) > 0
UARTExtPack_call_get_ExtPack_event(unit) ==
    \E mask \in UARTExtPack_event_mask(unit) :
        /\ ret' = (IF unit_events \cap mask # {} THEN 1 ELSE 0)
        /\ op' = "get_ExtPack_event"
        /\ ev_trace' = Traced("get_ExtPack_event", unit,
                               IF unit_events \cap mask # {} THEN 1 ELSE 0)
        /\ UNCHANGED <<SREG_I, ExtPack_LL_SREG_save, unit_events, txcore>>
        /\ UNCHANGED <<recv_state, received_unit, TOIE0, TOV0, rx_hist, dispatched>>
        /\ UNCHANGED <<units, unit_data, cb_log, fg_pc, fg_call, in_custom_ISR, custom_ISR_frame>>
        /\ UNCHANGED <<array_index, beyond>>

NextEVL ==
    \/ \E unit \in EvUnits : UARTExtPack_set_ExtPack_event(unit)
    \/ \E unit \in EvUnits : UARTExtPack_clear_ExtPack_event(unit)
    \/ \E unit \in EvUnits : UARTExtPack_call_get_ExtPack_event(unit)
    \/ reset_ExtPack_events

SpecEVL == Init /\ [][NextEVL]_vars

----------------------------------------------------------------------------
(* Registration of several units, with storage and event bits in use *)

NextUNIT ==
    \/ \E unit \in InitUnits, unit_type \in RegTypes, custom_ISR \in CustomISRs :
          init_ExtPack_Unit(unit, unit_type, custom_ISR)
    \/ \E unit \in InitUnits, new_custom_ISR \in CustomISRs :
          set_ExtPack_custom_ISR(unit, new_custom_ISR)
    \/ \E received_data \in RxBytes :
          NBytes < MaxUnitBytes /\ USART_RX_vect(received_data, {})
    \/ \E unit \in RegUnits : set_ExtPack_event(unit)

SpecUNIT == Init /\ [][NextUNIT]_vars

----------------------------------------------------------------------------
(* Received unit bytes that carry access-mode bits *)

NextACC ==
    \/ \E unit \in RegUnits, unit_type \in SendTypes, custom_ISR \in CustomISRs :
          init_ExtPack_Unit(unit, unit_type, custom_ISR)
    \/ \E received_data \in AccBytes :
          NBytes < MaxAccBytes /\ USART_RX_vect(received_data, {})

SpecACC == Init /\ [][NextACC]_vars

\* ISR(USART_RX_vect) of UARTExtPack.c in the state recv_state with the
\* pending unit byte unit: the next state, the pending unit byte, and whether
\* the byte reaches the switch on units[received_unit].unit_type
UARTExtPack_USART_RX_vect_step(state, unit, received_data, errors) ==
    IF state = RECV_UNIT_NEXT_STATE
    THEN [received_unit |-> received_data,
          recv_state |-> IF \/ HasFrameOrParityError(errors)
                            \/ BitSet(received_data, ACC_MODE1_BIT)
                            \/ BitSet(received_data, ACC_MODE0_BIT)
                         THEN RECV_INVALID_UNIT ELSE RECV_DATA_NEXT_STATE,
          call |-> <<>>]
    ELSE IF state = RECV_DATA_NEXT_STATE
    THEN [received_unit |-> unit,
          recv_state |-> RECV_UNIT_NEXT_STATE,
          call |-> IF HasFrameOrParityError(errors) \/ unit >= USED_UNITS
                   THEN <<>> ELSE <<unit, received_data>>]
    ELSE [received_unit |-> unit,
          recv_state |-> RECV_UNIT_NEXT_STATE,
          call |-> <<>>]

----------------------------------------------------------------------------
(* send_to_ExtPack: the send call that keeps the output values *)

\* x with bit b cleared
WithoutBit(x, b) == IF BitSet(x, b) THEN x - 2^b ELSE x

\* the assignment that send_to_ExtPack makes to unit_data[unit].output_values
\* after a successful send, for the unit_type it has read from units[unit]:
\* op "=" stores value, op "&=" masks with value, op "none" is no assignment
send_to_ExtPack_store(unit, unit_type, data) ==
    IF unit_type = EXTPACK_GPIO_UNIT /\ ~BitSet(unit, ACC_MODE0_BIT)
    THEN [op |-> "=", value |-> data]
    ELSE IF unit_type = EXTPACK_SPI_UNIT /\ BitSet(unit, ACC_MODE0_BIT)
    THEN [op |-> "=", value |-> data]
    ELSE IF unit_type = EXTPACK_I2C_UNIT /\ BitSet(unit, ACC_MODE0_BIT)
    THEN [op |-> "=", value |-> data]
    ELSE IF unit_type = EXTPACK_ACK_UNIT
    THEN [op |-> "&=",
          value |-> IF data > 0 THEN 255 ELSE WithoutBit(255, ACK_STATE)]
    ELSE [op |-> "none", value |-> 0]

\* the array index that send_to_ExtPack uses on units[] and unit_data[]
send_to_ExtPack_index(unit) == unit

\* units[] and unit_data[] have USED_UNITS elements: reading units[i] with
\* i >= USED_UNITS yields whatever lies behind the array, and an assignment
\* to unit_data[i] changes memory that belongs to another object
send_to_ExtPack_effect(unit, data) ==
    IF unit % 64 < USED_UNITS
    THEN /\ send_UART_ExtPack_message(unit, data)
         /\ IF ret' = EXT_PACK_SUCCESS
            THEN LET i == send_to_ExtPack_index(unit) IN
                 \E unit_type \in (IF i < USED_UNITS THEN {units[i].unit_type}
                                   ELSE BeyondTypes) :
                   LET store == send_to_ExtPack_store(unit, unit_type, data) IN
                     /\ array_index' = array_index \cup {i}
                     /\ IF store.op = "none"
                        THEN UNCHANGED <<unit_data, beyond>>
                        ELSE IF i < USED_UNITS
                        THEN /\ unit_data' =
                                   [unit_data EXCEPT ![i].output_values =
                                       IF store.op = "=" THEN store.value
                                       ELSE IF store.value = 255 THEN @
                                       ELSE WithoutBit(@, ACK_STATE)]
                             /\ UNCHANGED beyond
                        ELSE /\ beyond' = Append(beyond,
                                                 [index |-> i, op |-> store.op,
                                                  value |-> store.value])
                             /\ UNCHANGED unit_data
            ELSE UNCHANGED <<unit_data, array_index, beyond>>
         /\ UNCHANGED <<recv_state, received_unit, TOIE0, TOV0, rx_hist, dispatched,
                        units, cb_log, unit_events>>
    ELSE /\ ret' = EXT_PACK_FAILURE
         /\ op' = "send"
         /\ UNCHANGED <<send_buf_metadata, next_data_to_send_is_buffer_pair,
                        next_data_to_send, UDRIE0, UDRE0, UDR0, tx_shift_busy,
                        SREG_I, ExtPack_LL_SREG_save, written, accepted, readout,
                        sent>>
         /\ UNCHANGED <<recv_state, received_unit, TOIE0, TOV0, rx_hist, dispatched,
                        regvars>>

\* send_to_ExtPack called from the main program outside any other call
send_to_ExtPack(unit, data) ==
    send_to_ExtPack_effect(unit, data) /\ UNCHANGED appvars

NextSEND ==
    \/ \E unit \in RegUnits, unit_type \in SendTypes :
          init_ExtPack_Unit(unit, unit_type, NULL)
    \/ \E unit \in Units, data \in SendData :
          Len(written) < MaxSendCalls /\ send_to_ExtPack(unit, data)
    \/ USART_UDRE_vect
    \/ TxShift
    \/ \E received_data \in RxBytes :
          NBytes < MaxSendBytes /\ USART_RX_vect(received_data, {})

SpecSEND == InitTXB /\ [][NextSEND]_vars

----------------------------------------------------------------------------
(* The event functions statement by statement, with the interrupts that can
   come between their statements *)

\* the receive state machine and the registry, which these steps leave alone
rxcore == <<recv_state, received_unit, TOIE0, TOV0, rx_hist, dispatched,
            units, unit_data, cb_log, array_index, beyond>>

\* enter_critical_zone, first statement: ExtPack_LL_SREG_save = SREG
enter_critical_zone_save(fn, unit) ==
    /\ fg_pc = "idle"
    /\ ~in_custom_ISR
    /\ ExtPack_LL_SREG_save' = SREG_I
    /\ fg_pc' = "cli"
    /\ fg_call' = [fn |-> fn, unit |-> unit, I_before |-> SREG_I]
    /\ op' = "enter_critical_zone"
    /\ UNCHANGED <<SREG_I, unit_events, in_custom_ISR, custom_ISR_frame, ev_trace, ret, txcore, rxcore>>

\* enter_critical_zone, second statement: cli()
enter_critical_zone_cli ==
    /\ fg_pc = "cli"
    /\ ~in_custom_ISR
    /\ SREG_I' = FALSE
    /\ fg_pc' = "update"
    /\ op' = "cli"
    /\ UNCHANGED <<ExtPack_LL_SREG_save, fg_call, unit_events, in_custom_ISR, custom_ISR_frame, ev_trace,
                   ret, txcore, rxcore>>

\* unit_events |= mask or unit_events &= ~mask of the function that fg_call names
update_unit_events ==
    /\ fg_pc = "update"
    /\ ~in_custom_ISR
    /\ unit_events' = IF fg_call.fn = "set_ExtPack_event"
                      THEN unit_events \cup event_mask(fg_call.unit)
                      ELSE unit_events \ event_mask(fg_call.unit)
    /\ fg_pc' = "exit"
    /\ op' = "update_unit_events"
    /\ UNCHANGED <<SREG_I, ExtPack_LL_SREG_save, fg_call, in_custom_ISR, custom_ISR_frame, ev_trace,
                   ret, txcore, rxcore>>

\* exit_critical_zone: SREG = ExtPack_LL_SREG_save
exit_critical_zone ==
    /\ fg_pc = "exit"
    /\ ~in_custom_ISR
    /\ SREG_I' = ExtPack_LL_SREG_save
    /\ fg_pc' = "idle"
    /\ op' = "exit_critical_zone"
    /\ UNCHANGED <<ExtPack_LL_SREG_save, fg_call, unit_events, in_custom_ISR, custom_ISR_frame, ev_trace,
                   ret, txcore, rxcore>>

\* reset_ExtPack_events, its one statement: unit_events = 0
reset_unit_events ==
    /\ fg_pc = "idle"
    /\ ~in_custom_ISR
    /\ unit_events' = {}
    /\ op' = "reset_unit_events"
    /\ UNCHANGED <<SREG_I, ExtPack_LL_SREG_save, fg_pc, fg_call, in_custom_ISR, custom_ISR_frame,
                   ev_trace, ret, txcore, rxcore>>

\* the receive interrupt is taken, which clears the global interrupt enable
\* flag, and its handler calls the custom_ISR of the unit
custom_ISR_enter ==
    /\ SREG_I
    /\ ~in_custom_ISR
    /\ SREG_I' = FALSE
    /\ in_custom_ISR' = TRUE
    /\ UNCHANGED custom_ISR_frame
    /\ op' = "custom_ISR"
    /\ UNCHANGED <<ExtPack_LL_SREG_save, fg_pc, fg_call, unit_events, ev_trace,
                   ret, txcore, rxcore>>

\* the custom_ISR and the handler return; reti sets the flag
custom_ISR_return ==
    /\ in_custom_ISR
    /\ SREG_I' = TRUE
    /\ in_custom_ISR' = FALSE
    /\ UNCHANGED custom_ISR_frame
    /\ op' = "reti"
    /\ UNCHANGED <<ExtPack_LL_SREG_save, fg_pc, fg_call, unit_events, ev_trace,
                   ret, txcore, rxcore>>

NextCS ==
    \/ \E fn \in CriticalEventFns, unit \in EvUnits : enter_critical_zone_save(fn, unit)
    \/ enter_critical_zone_cli
    \/ update_unit_events
    \/ exit_critical_zone
    \/ reset_unit_events
    \/ custom_ISR_enter
    \/ custom_ISR_return
    \/ \E unit \in Units, data \in Data :
          /\ fg_pc = "idle" \/ in_custom_ISR
          /\ Len(written) < MaxCsSends
          /\ send_UART_ExtPack_command(unit, data)
    \/ USART_UDRE_vect
    \/ TxShift

SpecCS == Init /\ [][NextCS]_vars

----------------------------------------------------------------------------
(* Receive interrupts inside a custom_ISR that calls sei(): main.c *)

\* the receive-complete handler up to the sei() of the custom_ISR that
\* process_received_ExtPack_data calls: the interrupt clears the global
\* interrupt enable flag, the handler sets recv_state and TOIE0 and passes
\* received_unit and received_data by value, and unit_U03_custom_ISR sets the
\* flag again
USART_RX_vect_sei(received_data) ==
    /\ ~in_custom_ISR
    /\ USART_RX_vect_effect(received_data, {})
    /\ cb_log' # cb_log
    /\ cb_log'[Len(cb_log')].custom_ISR = unit_U03_custom_ISR
    /\ custom_ISR_frame' = <<[unit |-> received_unit, data |-> received_data,
                              at |-> Len(rx_hist'), dispatch |-> Len(dispatched')]>>
    /\ in_custom_ISR' = TRUE
    /\ SREG_I' = TRUE
    /\ op' = "custom_ISR"
    /\ UNCHANGED <<fg_pc, fg_call, ev_trace, ExtPack_LL_SREG_save, ret, txcore>>

\* the custom_ISR started by USART_RX_vect_sei returns with the arguments it
\* was called with, and the handler returns with reti
USART_RX_vect_reti ==
    /\ in_custom_ISR
    /\ custom_ISR_frame # <<>>
    /\ custom_ISR_frame' = <<>>
    /\ in_custom_ISR' = FALSE
    /\ SREG_I' = TRUE
    /\ op' = "reti"
    /\ ev_trace' = Traced("unit_U03_custom_ISR", custom_ISR_frame[1].unit,
                          custom_ISR_frame[1].data)
    /\ UNCHANGED <<fg_pc, fg_call, ExtPack_LL_SREG_save, ret, unit_events, txcore,
                   rxcore>>

NextNEST ==
    \/ \E unit \in RegUnits :
          init_ExtPack_Unit(unit, EXTPACK_UART_UNIT, unit_U03_custom_ISR)
    \/ \E received_data \in RxBytes : USART_RX_vect(received_data, {})
    \/ \E received_data \in RxBytes : USART_RX_vect_sei(received_data)
    \/ USART_RX_vect_reti
    \/ TimerOverflow
    \/ TIMER0_OVF_vect

SpecNEST == Init /\ [][NextNEST]_vars

----------------------------------------------------------------------------
(* get_ExtPack_ack_event of ExtPack_U_Acknowledge.c under the receive interrupt *)

\* get_ExtPack_ack_event, first statement:
\* uint8_t is_event_set = get_ExtPack_event(unit_U02)
get_ExtPack_ack_event_read ==
    /\ fg_pc = "idle"
    /\ fg_pc' = "ack_clear"
    /\ fg_call' = [fn |-> "get_ExtPack_ack_event", unit |-> unit_U02,
                   I_before |-> SREG_I]
    /\ ret' = get_ExtPack_event(unit_U02)
    /\ op' = "get_ExtPack_event"
    /\ UNCHANGED <<SREG_I, ExtPack_LL_SREG_save, unit_events, in_custom_ISR, custom_ISR_frame,
                   ev_trace, txcore, rxcore>>

\* get_ExtPack_ack_event, second and third statement:
\* clear_ExtPack_event(unit_U02); return is_event_set > 0
get_ExtPack_ack_event_clear ==
    /\ fg_pc = "ack_clear"
    /\ fg_pc' = "idle"
    /\ ExtPack_LL_SREG_save' = SREG_I
    /\ unit_events' = unit_events \ event_mask(unit_U02)
    /\ ev_trace' = Traced("get_ExtPack_ack_event", unit_U02, ret)
    /\ op' = "get_ExtPack_ack_event"
    /\ UNCHANGED <<SREG_I, ret, fg_call, in_custom_ISR, custom_ISR_frame, txcore, rxcore>>

\* clear_ExtPack_ack_event()
clear_ExtPack_ack_event ==
    /\ fg_pc = "idle"
    /\ clear_ExtPack_event(unit_U02)

\* the receive interrupt completes a pair for the Ack unit: the data byte is
\* stored and the event of unit_U02 is set
ack_received(data) ==
    /\ SREG_I
    /\ Len(dispatched) < MaxAcks
    /\ dispatched' = Append(dispatched,
                            [unit |-> unit_U02, data |-> data,
                             unit_at |-> 0, at |-> 0, descr |-> units[unit_U02]])
    /\ unit_data' = [unit_data EXCEPT ![unit_U02].input_values = data]
    /\ unit_events' = unit_events \cup event_mask(unit_U02)
    /\ op' = "USART_RX_vect"
    /\ UNCHANGED <<recv_state, received_unit, TOIE0, TOV0, rx_hist, units, cb_log,
                   array_index, beyond>>
    /\ UNCHANGED <<SREG_I, ExtPack_LL_SREG_save, ret, txcore>>
    /\ UNCHANGED appvars

NextACK ==
    \/ get_ExtPack_ack_event_read
    \/ get_ExtPack_ack_event_clear
    \/ clear_ExtPack_ack_event
    \/ \E data \in Data : ack_received(data)

SpecACK == Init /\ [][NextACK]_vars

----------------------------------------------------------------------------
(* Unit helpers of the current revision: ExtPack.h, ExtPack_U_GPIO.c *)

\* (unit & 0x3F) | (access_mode << 6) without the conversion to unit_t
set_ExtPack_access_mode_as_int(unit, access_mode) ==
    (unit % 64) + access_mode * 2^6

\* (unit & 0x3F) | (access_mode << 6), an int, returned as unit_t (uint8_t):
\* the two operands of | have no bit in common
set_ExtPack_access_mode(unit, access_mode) ==
    ((unit % 64) + access_mode * 2^6) % 256

\* _send_to_ExtPack: sends the pair as it is over the link layer
send_to_ExtPack_as_is(unit, data) == send_UART_ExtPack_message(unit, data)

\* set_ExtPack_gpio_out(unit, data)
set_ExtPack_gpio_out(unit, data) ==
    /\ unit_data' = [unit_data EXCEPT ![unit].output_values = data]
    /\ send_to_ExtPack_as_is(set_ExtPack_access_mode(unit, 0), data)
    /\ ev_trace' = Traced("set_ExtPack_gpio_out", unit, ret')
    /\ UNCHANGED <<recv_state, received_unit, TOIE0, TOV0, rx_hist, dispatched,
                   units, cb_log, unit_events, array_index, beyond>>
    /\ UNCHANGED <<fg_pc, fg_call, in_custom_ISR, custom_ISR_frame>>

NextGPIO ==
    \/ \E unit \in RegUnits, data \in Data :
          Len(written) < MaxHelperSends /\ set_ExtPack_gpio_out(unit, data)
    \/ USART_UDRE_vect
    \/ TxShift

SpecGPIO == Init /\ [][NextGPIO]_vars

----------------------------------------------------------------------------
(* Timer and I2C helpers: ExtPack_U_Timer.h, ExtPack_U_I2C.h *)

\* the unit numbers of the helpers' callers
HelperUnits == 0..(USED_UNITS - 1)

\* return _send_to_ExtPack(_set_ExtPack_access_mode(unit, access_mode), data),
\* with access_mode the value of the literal in the helper's text
send_with_access_mode(fn, unit, access_mode, data) ==
    /\ fg_pc = "idle"
    /\ fg_pc' = "helper_done"
    /\ send_to_ExtPack_as_is(set_ExtPack_access_mode(unit, access_mode), data)
    /\ fg_call' = [fn |-> fn, unit |-> unit, access_mode |-> access_mode,
                   submitted |->
                       <<[unit |-> set_ExtPack_access_mode(unit, access_mode),
                          data |-> data, ret |-> ret']>>]
    /\ UNCHANGED <<unit_events, in_custom_ISR, custom_ISR_frame, ev_trace, rxcore>>

\* _set_ExtPack_access_mode(unit, 00): octal literal, value 0
set_ExtPack_timer_enable(unit, enable) ==
    send_with_access_mode("set_ExtPack_timer_enable", unit, 0, enable)

\* _set_ExtPack_access_mode(unit, 01): octal literal, value 1
restart_ExtPack_timer(unit) ==
    send_with_access_mode("restart_ExtPack_timer", unit, 1, 0)

\* _set_ExtPack_access_mode(unit, 10): decimal literal, value ten
set_ExtPack_timer_prescaler(unit, prescaler_divisor) ==
    send_with_access_mode("set_ExtPack_timer_prescaler", unit, 10, prescaler_divisor)

\* _set_ExtPack_access_mode(unit, 11): decimal literal, value eleven
set_ExtPack_timer_start_value(unit, start_value) ==
    send_with_access_mode("set_ExtPack_timer_start_value", unit, 11, start_value)

\* _set_ExtPack_access_mode(unit, 10): decimal literal, value ten
receive_ExtPack_I2C_data(unit) ==
    send_with_access_mode("receive_ExtPack_I2C_data", unit, 10, 0)

NextMODE ==
    \/ \E unit \in HelperUnits, enable \in SendData :
          set_ExtPack_timer_enable(unit, enable)
    \/ \E unit \in HelperUnits : restart_ExtPack_timer(unit)
    \/ \E unit \in HelperUnits, prescaler_divisor \in SendData :
          set_ExtPack_timer_prescaler(unit, prescaler_divisor)
    \/ \E unit \in HelperUnits, start_value \in SendData :
          set_ExtPack_timer_start_value(unit, start_value)
    \/ \E unit \in HelperUnits : receive_ExtPack_I2C_data(unit)
    \/ USART_UDRE_vect
    \/ TxShift

SpecMODE == Init /\ [][NextMODE]_vars

----------------------------------------------------------------------------
(* Strings: ExtPack_Advanced.c *)

\* characters of the strings, and the byte that lies behind the terminator
StrChars == {65, 66}
BehindString == 67

\* the memory that the data pointer points to: the characters, the '\0' and
\* one byte that is no longer part of the string
Strings ==
    {chars \o <<0, BehindString>> :
        chars \in UNION {[1..n -> StrChars] : n \in 0..MaxStrLen}}

\* send_String_to_ExtPack, entry: int index = 0
send_String_to_ExtPack_call(unit, data) ==
    /\ fg_pc = "idle"
    /\ fg_pc' = "string_loop"
    /\ fg_call' = [fn |-> "send_String_to_ExtPack", unit |-> unit, data |-> data,
                   index |-> 0, read |-> {}, submitted |-> <<>>, ret |-> "none"]
    /\ op' = "send_String_to_ExtPack"
    /\ UNCHANGED <<SREG_I, ExtPack_LL_SREG_save, ret, unit_events, in_custom_ISR, custom_ISR_frame,
                   ev_trace, txcore, rxcore>>

\* the loop without its return on EXT_PACK_FAILURE
send_String_to_ExtPack_loop_ignores_failure ==
    /\ fg_pc = "string_loop"
    /\ LET index == fg_call.index
           char == fg_call.data[index + 1]
       IN IF char # 0
          THEN /\ send_to_ExtPack_as_is(fg_call.unit, char)
               /\ fg_call' = [fg_call EXCEPT
                      !.index = index + 1,
                      !.read = @ \cup {index},
                      !.submitted = Append(@, [unit |-> fg_call.unit,
                                               data |-> char, ret |-> ret']),
                      !.ret = IF ret' = EXT_PACK_FAILURE
                              THEN EXT_PACK_FAILURE ELSE "none"]
               /\ fg_pc' = "string_loop"
          ELSE /\ fg_call' = [fg_call EXCEPT !.read = @ \cup {index},
                                             !.ret = EXT_PACK_SUCCESS]
               /\ fg_pc' = "string_done"
               /\ ret' = EXT_PACK_SUCCESS
               /\ op' = "send_String_to_ExtPack"
               /\ UNCHANGED <<SREG_I, ExtPack_LL_SREG_save, txcore>>
    /\ UNCHANGED <<unit_events, in_custom_ISR, custom_ISR_frame, ev_trace, rxcore>>

\* one pass of while (data[index] != '\0'): the submit of data[index++], the
\* return on EXT_PACK_FAILURE, else delay_us; or the return after the loop
send_String_to_ExtPack_loop ==
    /\ fg_pc = "string_loop"
    /\ LET index == fg_call.index
           char == fg_call.data[index + 1]
       IN IF char # 0
          THEN /\ send_to_ExtPack_as_is(fg_call.unit, char)
               /\ fg_call' = [fg_call EXCEPT
                      !.index = index + 1,
                      !.read = @ \cup {index},
                      !.submitted = Append(@, [unit |-> fg_call.unit,
                                               data |-> char, ret |-> ret']),
                      !.ret = IF ret' = EXT_PACK_FAILURE
                              THEN EXT_PACK_FAILURE ELSE "none"]
               /\ fg_pc' = IF ret' = EXT_PACK_FAILURE
                           THEN "string_done" ELSE "string_loop"
          ELSE /\ fg_call' = [fg_call EXCEPT !.read = @ \cup {index},
                                             !.ret = EXT_PACK_SUCCESS]
               /\ fg_pc' = "string_done"
               /\ ret' = EXT_PACK_SUCCESS
               /\ op' = "send_String_to_ExtPack"
               /\ UNCHANGED <<SREG_I, ExtPack_LL_SREG_save, txcore>>
    /\ UNCHANGED <<unit_events, in_custom_ISR, custom_ISR_frame, ev_trace, rxcore>>

NextSTR ==
    \/ \E unit \in RegUnits, data \in Strings :
          send_String_to_ExtPack_call(unit, data)
    \/ send_String_to_ExtPack_loop
    \/ USART_UDRE_vect
    \/ TxShift

SpecSTR == Init /\ [][NextSTR]_vars

----------------------------------------------------------------------------
(* SRAM address: ExtPack_U_SRAM.c *)

\* 32-bit addresses without and with zero bytes
SRAMAddresses == {16909060, 16777220, 66051, 4}

\* (uint8_t)(address >> (8 * k))
AddressByte(address, k) == (address \div (256 ^ k)) % 256

\* set_ExtPack_SRAM_address up to the first pass of the loop of
\* send_String_to_ExtPack: reset_ExtPack_SRAM_address(unit), the return on its
\* failure, address_string[0..4], and the entry of send_String_to_ExtPack
set_ExtPack_SRAM_address_call(unit, address) ==
    /\ fg_pc = "idle"
    /\ send_to_ExtPack_as_is(set_ExtPack_access_mode(unit, 0), 0)
    /\ LET address_string == <<AddressByte(address, 0), AddressByte(address, 1),
                               AddressByte(address, 2), AddressByte(address, 3), 0>>
           reset == [unit |-> set_ExtPack_access_mode(unit, 0), data |-> 0,
                     ret |-> ret']
       IN fg_call' = [fn |-> "set_ExtPack_SRAM_address", unit |-> unit,
                      address |-> address, data |-> address_string, index |-> 0,
                      read |-> {}, submitted |-> <<reset>>,
                      ret |-> IF ret' = EXT_PACK_FAILURE
                              THEN EXT_PACK_FAILURE ELSE "none"]
    /\ fg_pc' = IF ret' = EXT_PACK_FAILURE THEN "string_done" ELSE "string_loop"
    /\ UNCHANGED <<unit_events, in_custom_ISR, custom_ISR_frame, ev_trace, rxcore>>

NextSRAM ==
    \/ \E unit \in RegUnits, address \in SRAMAddresses :
          set_ExtPack_SRAM_address_call(unit, address)
    \/ send_String_to_ExtPack_loop
    \/ USART_UDRE_vect
    \/ TxShift

SpecSRAM == Init /\ [][NextSRAM]_vars

----------------------------------------------------------------------------
(* Strings with retries: lib/UARTExtPack/src/ExtPack.c, SEND_MAX_ATTEMPTS *)

\* max_attempts of the callers
MaxAttempts == {1, 2}

\* the bytes that data[index] can yield: the byte of the modelled memory, or
\* any byte once index has left it
ReadString(data, index) ==
    IF index < Len(data) THEN {data[index + 1]} ELSE {0, BehindString}

\* send_String_to_ExtPack, entry: int index = 0
UARTExtPack_send_String_to_ExtPack_call(unit, data, max_attempts) ==
    /\ fg_pc = "idle"
    /\ fg_pc' = "retry_loop"
    /\ fg_call' = [fn |-> "UARTExtPack_send_String_to_ExtPack", unit |-> unit,
                   data |-> data, max_attempts |-> max_attempts, index |-> 0,
                   attempts |-> 0, read |-> {}, submitted |-> <<>>, ret |-> "none"]
    /\ op' = "send_String_to_ExtPack"
    /\ UNCHANGED <<SREG_I, ExtPack_LL_SREG_save, ret, unit_events, in_custom_ISR, custom_ISR_frame,
                   ev_trace, txcore, rxcore>>

\* one evaluation of the condition of the macro's while loop, which holds the
\* text of func_call, send_to_ExtPack(unit, data[index++]), and the
\* statements up to the next delay or return; attempts is the macro's
\* counter before the evaluation
SEND_MAX_ATTEMPTS(attempts) ==
    \E char \in ReadString(fg_call.data, fg_call.index) :
      /\ send_to_ExtPack_effect(fg_call.unit, char)
      /\ LET failed == ret' = EXT_PACK_FAILURE
             gives_up == /\ failed
                         /\ attempts + 1 >= fg_call.max_attempts
                         /\ fg_call.max_attempts # 0
         IN /\ fg_call' = [fg_call EXCEPT
                   !.index = @ + 1,
                   !.attempts = IF failed THEN attempts + 1 ELSE attempts,
                   !.read = @ \cup {fg_call.index},
                   !.submitted = Append(@, [index |-> fg_call.index,
                                            data |-> char, ret |-> ret']),
                   !.ret = IF gives_up THEN EXT_PACK_FAILURE ELSE "none"]
            /\ fg_pc' = IF gives_up THEN "retry_done"
                        ELSE IF failed THEN "retry_wait"
                        ELSE "retry_loop"
      /\ UNCHANGED <<in_custom_ISR, custom_ISR_frame, ev_trace>>

\* while (data[index] != '\0'): the first evaluation of the macro, or the
\* return after the loop
UARTExtPack_send_String_to_ExtPack_loop ==
    /\ fg_pc = "retry_loop"
    /\ \E char \in ReadString(fg_call.data, fg_call.index) :
         IF char # 0
         THEN SEND_MAX_ATTEMPTS(0)
         ELSE /\ fg_call' = [fg_call EXCEPT !.read = @ \cup {fg_call.index},
                                            !.ret = EXT_PACK_SUCCESS]
              /\ fg_pc' = "retry_done"
              /\ ret' = EXT_PACK_SUCCESS
              /\ op' = "send_String_to_ExtPack"
              /\ UNCHANGED <<SREG_I, ExtPack_LL_SREG_save, unit_events,
                             in_custom_ISR, custom_ISR_frame, ev_trace, txcore, rxcore>>

\* the next evaluation of the macro's loop condition after delay_us
UARTExtPack_send_String_to_ExtPack_retry ==
    /\ fg_pc = "retry_wait"
    /\ SEND_MAX_ATTEMPTS(fg_call.attempts)

NextSTRL ==
    \/ \E unit \in RegUnits, data \in Strings, max_attempts \in MaxAttempts :
          UARTExtPack_send_String_to_ExtPack_call(unit, data, max_attempts)
    \/ UARTExtPack_send_String_to_ExtPack_loop
    \/ UARTExtPack_send_String_to_ExtPack_retry
    \/ USART_UDRE_vect
    \/ TxShift

SpecSTRL == Init /\ [][NextSTRL]_vars

----------------------------------------------------------------------------
(* Properties of the ring buffer and of the transmit engine *)

IsPrefix(s, t) == Len(s) <= Len(t) /\ \A i \in 1..Len(s) : s[i] = t[i]

\* unit1, data1, unit2, data2, ... of a sequence of <<unit, data>> pairs
PairBytes(pairs) ==
    [i \in 1..(2 * Len(pairs)) |->
        IF i % 2 = 1 THEN pairs[(i + 1) \div 2][1] ELSE pairs[i \div 2][2]]

\* accepted writes minus successful reads
Stored == Len(written) - Len(readout)

\* the entries the ring buffer holds, oldest first
RingContents(metadata) ==
    [i \in 1..(metadata.buf_len - metadata.free_slots) |->
        metadata.data[(metadata.next_read_slot_index + i - 1) % metadata.buf_len]]

\* C1: buffered variant: the bytes written to the UART data register are
\* unit1, data1, unit2, data2, ... of the accepted commands in submission
\* order (always a prefix of them: nothing reordered, duplicated or split),
\* and when the interrupt is off again every accepted pair has been written.
C1_WireIsAcceptedPairsInOrder ==
    Buffered =>
        /\ IsPrefix(sent, PairBytes(accepted))
        /\ (~UDRIE0 => sent = PairBytes(accepted))

\* three pairs on the wire, the first two different, sent through a buffer of
\* two slots (the indices wrapped), while further commands were queued
C1_Witness ==
    /\ send_buf_metadata.buf_len = 2
    /\ Len(sent) = 6
    /\ accepted[1] # accepted[2]
    /\ Len(accepted) = 5

\* C2: the values returned by the successful read_buf calls are a prefix of
\* the values accepted by the successful write_buf calls.
C2_ReadsArePrefixOfWrites == IsPrefix(readout, written)

\* five values read back through a buffer of two slots: both indices have
\* wrapped around twice
C2_Witness ==
    /\ send_buf_metadata.buf_len = 2
    /\ Len(readout) = 5
    /\ readout[4] # readout[5]

\* C3: free_slots plus the number of stored entries equals buf_len, and
\* 0 <= free_slots <= buf_len.
C3_SlotConservation ==
    /\ send_buf_metadata.free_slots + Stored = send_buf_metadata.buf_len
    /\ 0 <= send_buf_metadata.free_slots
    /\ send_buf_metadata.free_slots <= send_buf_metadata.buf_len

\* a write_buf call has just failed on a full buffer that was read from before
C3_Witness ==
    /\ send_buf_metadata.buf_len = 2
    /\ op = "write_buf"
    /\ ret = EXT_PACK_FAILURE
    /\ Len(readout) >= 1

\* C4: buffered variant: a send_UART_ExtPack_command call fails iff the ring
\* buffer holds buf_len entries at the call; otherwise it succeeds and
\* enqueues the pair behind the entries already stored.
C4_SendFailsIffFull ==
    [][(op' = "send" /\ Buffered) =>
          /\ (ret' = EXT_PACK_FAILURE) <=> (Stored = send_buf_metadata.buf_len)
          /\ (ret' # EXT_PACK_FAILURE) =>
                /\ ret' = EXT_PACK_SUCCESS
                /\ Len(accepted') = Len(accepted) + 1
                /\ RingContents(send_buf_metadata') =
                      Append(RingContents(send_buf_metadata),
                             buf_data_of(accepted'[Len(accepted')][1],
                                         accepted'[Len(accepted')][2]))]_vars

\* capacity 4: four commands were accepted, none dequeued, and the fifth call
\* has just failed
C4_Witness ==
    /\ send_buf_metadata.buf_len = 4
    /\ op = "send"
    /\ ret = EXT_PACK_FAILURE
    /\ Len(accepted) = 4
    /\ Len(readout) = 0

\* C5: a send_UART_ExtPack_command call that returns EXT_PACK_FAILURE changes
\* nothing of the transmit state and sends no byte (both variants).
C5_FailedSendChangesNothing ==
    [][(op' = "send" /\ ret' = EXT_PACK_FAILURE) =>
          UNCHANGED <<send_buf_metadata, next_data_to_send_is_buffer_pair,
                      next_data_to_send, UDR0, UDRE0, UDRIE0, sent, accepted>>]_vars

\* a failed call in the queueless variant, the first pair still in flight
C5_Witness ==
    /\ ~Buffered
    /\ op = "send"
    /\ ret = EXT_PACK_FAILURE
    /\ UDRIE0
    /\ Len(sent) = 1

----------------------------------------------------------------------------
(* Properties of the receive state machine *)

\* the process_received_ExtPack_data calls made by the n-th event
DispatchAt(n) == {k \in 1..Len(dispatched) : dispatched[k].at = n}

\* the n-th event is a received byte without frame / parity error
CleanByte(n) == rx_hist[n].kind = "byte" /\ ~rx_hist[n].err

\* the n-th event is a received byte with a frame / parity error
BadByte(n) == rx_hist[n].kind = "byte" /\ rx_hist[n].err

\* the n-th event is an error-free byte taken as unit byte in AwaitUnit
AcceptedUnitByte(n) == CleanByte(n) /\ rx_hist[n].state = RECV_UNIT_NEXT_STATE

\* the n-th event is a byte with an error received in AwaitUnit
BadUnitByte(n) == BadByte(n) /\ rx_hist[n].state = RECV_UNIT_NEXT_STATE

\* the first byte received after the n-th event, as a set (empty: none yet)
NextByteAfter(n) ==
    {m \in (n + 1)..Len(rx_hist) :
        /\ rx_hist[m].kind = "byte"
        /\ \A j \in (n + 1)..(m - 1) : rx_hist[j].kind # "byte"}

\* C6: process_received_ExtPack_data is called by an event iff that event is
\* an error-free byte received directly after an error-free unit byte taken
\* in AwaitUnit (no timeout between them), once, with exactly these two bytes.
C6_DispatchIffTwoConsecutiveAccepted ==
    \A n \in 1..Len(rx_hist) :
        /\ (DispatchAt(n) # {}) <=>
              (n >= 2 /\ CleanByte(n) /\ AcceptedUnitByte(n - 1))
        /\ Cardinality(DispatchAt(n)) <= 1
        /\ \A k \in DispatchAt(n) :
              /\ n >= 2
              /\ dispatched[k].unit_at = n - 1
              /\ dispatched[k].unit = rx_hist[n - 1].data
              /\ dispatched[k].data = rx_hist[n].data

\* C7 as stated: after a unit byte with an error the state is ResyncDiscard
\* and the next received byte, whenever it arrives, is discarded: no
\* dispatch, not taken as a unit byte, AwaitUnit after it.
C7_NextByteAlwaysDiscarded ==
    \A n \in 1..Len(rx_hist) :
        BadUnitByte(n) =>
            /\ rx_hist[n].next = RECV_INVALID_UNIT
            /\ \A m \in NextByteAfter(n) :
                  /\ rx_hist[m].state # RECV_UNIT_NEXT_STATE
                  /\ rx_hist[m].next = RECV_UNIT_NEXT_STATE
                  /\ DispatchAt(m) = {}

\* C7 amended: after a unit byte with an error the state is ResyncDiscard
\* with the watchdog armed and nothing is ever dispatched for that byte; a
\* byte received before the watchdog expires is discarded whatever its
\* content and error flags (no dispatch, not taken as unit byte, AwaitUnit
\* and watchdog off after it); if the watchdog expires first, the machine is
\* back in AwaitUnit without dispatch and the next byte is taken as a unit
\* byte.
C7_NextByteDiscardedUnlessTimeout ==
    \A n \in 1..Len(rx_hist) :
        BadUnitByte(n) =>
            /\ rx_hist[n].next = RECV_INVALID_UNIT
            /\ rx_hist[n].toie
            /\ \A k \in 1..Len(dispatched) : dispatched[k].unit_at # n
            /\ (n + 1 <= Len(rx_hist) /\ rx_hist[n + 1].kind = "byte") =>
                  /\ rx_hist[n + 1].state = RECV_INVALID_UNIT
                  /\ rx_hist[n + 1].next = RECV_UNIT_NEXT_STATE
                  /\ ~rx_hist[n + 1].toie
                  /\ DispatchAt(n + 1) = {}
            /\ (n + 1 <= Len(rx_hist) /\ rx_hist[n + 1].kind = "timeout") =>
                  /\ rx_hist[n + 1].next = RECV_UNIT_NEXT_STATE
                  /\ DispatchAt(n + 1) = {}
                  /\ \A m \in NextByteAfter(n + 1) :
                        rx_hist[m].state = RECV_UNIT_NEXT_STATE

\* a unit byte with an error, the following byte (itself with an error)
\* discarded, and a pair dispatched afterwards
C7_Witness ==
    /\ Len(rx_hist) = 4
    /\ BadUnitByte(1)
    /\ BadByte(2)
    /\ rx_hist[2].data # rx_hist[1].data
    /\ DispatchAt(4) # {}

\* C8: an error-free unit byte taken in AwaitUnit and followed by the
\* watchdog overflow interrupt: after the interrupt recv_state is AwaitUnit,
\* the overflow interrupt is disabled, and no dispatch is ever made for that
\* unit byte.
C8_TimeoutAfterUnitByte ==
    \A n \in 1..(Len(rx_hist) - 1) :
        (AcceptedUnitByte(n) /\ rx_hist[n + 1].kind = "timeout") =>
            /\ rx_hist[n + 1].next = RECV_UNIT_NEXT_STATE
            /\ ~rx_hist[n + 1].toie
            /\ (n + 1 = Len(rx_hist) =>
                   recv_state = RECV_UNIT_NEXT_STATE /\ ~TOIE0)
            /\ DispatchAt(n) = {}
            /\ DispatchAt(n + 1) = {}
            /\ \A k \in 1..Len(dispatched) : dispatched[k].unit_at # n

\* a lone unit byte, the timeout, and then a complete pair whose unit byte
\* differs from the lone one
C8_Witness ==
    /\ Len(rx_hist) = 4
    /\ AcceptedUnitByte(1)
    /\ rx_hist[2].kind = "timeout"
    /\ DispatchAt(4) # {}
    /\ rx_hist[3].data # rx_hist[1].data

\* C9: out of AwaitData or ResyncDiscard the machine comes back to AwaitUnit
\* with the watchdog disarmed unless a further byte arrives, and the first
\* watchdog expiry does it, without a dispatch.
C9_SelfHealing ==
    /\ \A n \in 0..MaxRxBytes :
          (recv_state # RECV_UNIT_NEXT_STATE /\ NBytes = n)
              ~> ((recv_state = RECV_UNIT_NEXT_STATE /\ ~TOIE0) \/ NBytes > n)
    /\ [][(Len(rx_hist') > Len(rx_hist) /\ rx_hist'[Len(rx_hist')].kind = "timeout") =>
             /\ recv_state' = RECV_UNIT_NEXT_STATE
             /\ ~TOIE0'
             /\ dispatched' = dispatched]_vars

\* the watchdog brought the machine back from AwaitData after a data byte
\* with a framing error
C9_Witness ==
    /\ Len(rx_hist) = 3
    /\ AcceptedUnitByte(1)
    /\ BadByte(2)
    /\ rx_hist[2].next = RECV_DATA_NEXT_STATE
    /\ rx_hist[3].kind = "timeout"
    /\ recv_state = RECV_UNIT_NEXT_STATE
    /\ ~TOIE0

\* C10: unit byte u accepted, the following byte with an error, then an
\* error-free pair (u', d'): nothing is dispatched for u, and (u', d') is
\* dispatched as unit u' with data d'.
C10_ErrorOnDataAbortsThatPairOnly ==
    \A n \in 1..(Len(rx_hist) - 3) :
        (/\ AcceptedUnitByte(n)
         /\ BadByte(n + 1)
         /\ CleanByte(n + 2)
         /\ CleanByte(n + 3)) =>
            /\ \A k \in 1..Len(dispatched) : dispatched[k].unit_at # n
            /\ \E k \in DispatchAt(n + 3) :
                  /\ dispatched[k].unit = rx_hist[n + 2].data
                  /\ dispatched[k].data = rx_hist[n + 3].data

----------------------------------------------------------------------------
(* Properties of the dispatcher *)

\* C11: a byte received with a frame or parity error is never an argument of
\* process_received_ExtPack_data, never a stored input value and never an
\* argument of a callback: both arguments of every dispatch are bytes that
\* came without error, every callback has the arguments of the dispatch made
\* for the same byte, and every stored input value is the data argument of a
\* dispatch to that unit.
C11_ErrorBytesNeverPropagate ==
    /\ \A k \in 1..Len(dispatched) :
          /\ dispatched[k].unit_at \in 1..Len(rx_hist)
          /\ dispatched[k].at \in 1..Len(rx_hist)
          /\ CleanByte(dispatched[k].unit_at)
          /\ CleanByte(dispatched[k].at)
          /\ dispatched[k].unit = rx_hist[dispatched[k].unit_at].data
          /\ dispatched[k].data = rx_hist[dispatched[k].at].data
    /\ \A c \in 1..Len(cb_log) :
          \E k \in DispatchAt(cb_log[c].at) :
              /\ cb_log[c].unit = dispatched[k].unit
              /\ cb_log[c].data = dispatched[k].data
    /\ \A u \in 0..(USED_UNITS - 1) :
          \/ unit_data[u].input_values = 0
          \/ \E k \in 1..Len(dispatched) :
                /\ dispatched[k].unit = u
                /\ dispatched[k].data = unit_data[u].input_values

\* a data byte came with an error, the byte after it completed the pair, and
\* the pair was stored and handed to the callback
C11_Witness ==
    /\ Len(rx_hist) = 3
    /\ AcceptedUnitByte(1)
    /\ BadByte(2)
    /\ rx_hist[2].data # rx_hist[3].data
    /\ CleanByte(3)
    /\ Len(dispatched) = 1
    /\ Len(cb_log) = 1
    /\ unit_data[rx_hist[1].data].input_values = rx_hist[3].data

\* the unit types whose case of the dispatcher stores the data byte
StoringTypes == {EXTPACK_GPIO_UNIT, EXTPACK_I2C_UNIT, EXTPACK_ACK_UNIT}

\* the dispatch made in this step, if any
NewDispatch == Len(dispatched') = Len(dispatched) + 1

\* C12: a pair addressed to a unit whose type is EXTPACK_UNDEFINED calls no
\* callback, whether or not one is installed, and leaves the stored input
\* value, the stored output value and the event bit of that unit as they were.
C12_UndefinedUnitIsNoOp ==
    [][NewDispatch =>
          LET u == dispatched'[Len(dispatched')].unit % USED_UNITS IN
            units[u].unit_type = EXTPACK_UNDEFINED =>
                /\ cb_log' = cb_log
                /\ unit_data'[u] = unit_data[u]
                /\ (u \in unit_events') = (u \in unit_events)]_vars

\* a pair was dispatched to unit 3 while its type was EXTPACK_UNDEFINED and a
\* callback was installed for it
C12_Witness ==
    /\ Len(dispatched) = 1
    /\ dispatched[1].unit = 3
    /\ dispatched[1].data # 0
    /\ dispatched[1].descr.unit_type = EXTPACK_UNDEFINED
    /\ dispatched[1].descr.custom_ISR # NULL
    /\ unit_data[3].input_values = 0
    /\ cb_log = <<>>

\* C13: when the error-free pair (u, d) has been received for a unit u that is
\* registered as GPIO with no callback, the stored input value of u is d and
\* the event bit of u is set.
C13_GpioPairStoredAndEventSet ==
    [][\A u \in 0..(USED_UNITS - 1), d \in RxBytes :
          (/\ NewDispatch
           /\ dispatched'[Len(dispatched')].unit = u
           /\ dispatched'[Len(dispatched')].data = d
           /\ units[u].unit_type = EXTPACK_GPIO_UNIT
           /\ units[u].custom_ISR = NULL) =>
              /\ get_ExtPack_stored_unit_input_values(u)' = d
              /\ get_ExtPack_event(u)' = 1]_vars

\* C14: a pair (u, d) dispatched to a registered unit with a callback calls
\* that callback exactly once, with the arguments (u, d), and after the store:
\* for the storing unit types the stored input value read inside the callback
\* is d.  No callback is called in any other step.
C14_CallbackOnceAfterStorage ==
    [][/\ cb_log' # cb_log => NewDispatch
       /\ NewDispatch =>
            LET u == dispatched'[Len(dispatched')].unit
                d == dispatched'[Len(dispatched')].data
            IN IF /\ u < USED_UNITS
                  /\ units[u].unit_type # EXTPACK_UNDEFINED
                  /\ units[u].custom_ISR # NULL
               THEN /\ Len(cb_log') = Len(cb_log) + 1
                    /\ SubSeq(cb_log', 1, Len(cb_log)) = cb_log
                    /\ cb_log'[Len(cb_log')].custom_ISR = units[u].custom_ISR
                    /\ cb_log'[Len(cb_log')].unit = u
                    /\ cb_log'[Len(cb_log')].data = d
                    /\ units[u].unit_type \in StoringTypes =>
                          cb_log'[Len(cb_log')].input_seen = d
               ELSE cb_log' = cb_log]_vars

\* the callback of a unit registered as GPIO was called once and read the
\* data byte of the pair as the stored input value
C14_Witness ==
    /\ Len(dispatched) = 1
    /\ dispatched[1].descr.unit_type = EXTPACK_GPIO_UNIT
    /\ dispatched[1].descr.custom_ISR # NULL
    /\ Len(cb_log) = 1
    /\ cb_log[1].unit = dispatched[1].unit
    /\ cb_log[1].data = dispatched[1].data
    /\ cb_log[1].input_seen = dispatched[1].data
    /\ cb_log[1].input_seen # 0

----------------------------------------------------------------------------
(* Properties of the queueless transmit engine *)

\* bytes that have left the data register for the shift register
LeftDataRegister == Len(sent) - (IF UDRE0 THEN 0 ELSE 1)

\* bytes whose last bit has left the transmitter
PhysicallySent == LeftDataRegister - (IF tx_shift_busy THEN 1 ELSE 0)

\* C15 as stated: in the queueless variant a send on an idle engine (UDRE0
\* set, UDRIE0 clear) returns EXT_PACK_SUCCESS, and a send made before both
\* bytes of an accepted pair have been physically transmitted returns
\* EXT_PACK_FAILURE.
C15_FailsUntilPhysicallySent ==
    [][(op' = "send" /\ ~Buffered) =>
          /\ (UDRE0 /\ ~UDRIE0) => ret' = EXT_PACK_SUCCESS
          /\ PhysicallySent < 2 * Len(accepted) => ret' = EXT_PACK_FAILURE]_vars

\* C15, amended: in the queueless variant a send on an idle engine returns
\* EXT_PACK_SUCCESS, and a send made before both bytes of an accepted pair
\* have left the data register returns EXT_PACK_FAILURE.
C15_FailsUntilPairLeftDataRegister ==
    [][(op' = "send" /\ ~Buffered) =>
          /\ (UDRE0 /\ ~UDRIE0) => ret' = EXT_PACK_SUCCESS
          /\ LeftDataRegister < 2 * Len(accepted) => ret' = EXT_PACK_FAILURE]_vars

\* a second send failed while the data byte of the first pair was in the data
\* register, behind the unit byte in the shift register
C15_Witness ==
    /\ ~Buffered
    /\ op = "send"
    /\ ret = EXT_PACK_FAILURE
    /\ Len(accepted) = 1
    /\ Len(sent) = 2
    /\ ~UDRE0
    /\ ~UDRIE0
    /\ tx_shift_busy

\* C16: in the queueless variant at most one pair is in flight: the bytes
\* written to the data register are the accepted pairs in order, unit byte
\* then data byte, the last accepted pair is the only one that may lack its
\* data byte, and until the handler has written that byte next_data_to_send
\* holds it and the interrupt stays enabled.
C16_OnePairInFlight ==
    ~Buffered =>
        /\ IsPrefix(sent, PairBytes(accepted))
        /\ Len(sent) >= 2 * Len(accepted) - 1
        /\ Len(sent) < 2 * Len(accepted) =>
              /\ UDRIE0
              /\ next_data_to_send = accepted[Len(accepted)][2]

\* a send was refused while the second of two different pairs was in flight
C16_Witness ==
    /\ ~Buffered
    /\ Len(accepted) = 2
    /\ accepted[1][1] # accepted[2][1]
    /\ accepted[1][2] # accepted[2][2]
    /\ Len(sent) = 3
    /\ op = "send"
    /\ ret = EXT_PACK_FAILURE

----------------------------------------------------------------------------
(* Properties of the event word *)

\* the call of an event function made in this step
EvCall(fn, unit) ==
    /\ ev_trace' # ev_trace
    /\ ev_trace'[Len(ev_trace')].fn = fn
    /\ ev_trace'[Len(ev_trace')].unit = unit

\* C17: clear_ExtPack_event(u) on a clear bit leaves the whole event word as
\* it was, and get_ExtPack_event(u) right after clear_ExtPack_event(u) right
\* after set_ExtPack_event(u) returns 0.
C17_ClearIdempotentSetClearGet ==
    /\ [][\A u \in EvUnits :
             (EvCall("clear_ExtPack_event", u) /\ get_ExtPack_event(u) = 0) =>
                 unit_events' = unit_events]_vars
    /\ [](\A u \in EvUnits :
             LET n == Len(ev_trace) IN
               (/\ n >= 3
                /\ ev_trace[n - 2] = [fn |-> "set_ExtPack_event", unit |-> u, ret |-> 0]
                /\ ev_trace[n - 1] = [fn |-> "clear_ExtPack_event", unit |-> u, ret |-> 0]
                /\ ev_trace[n].fn = "get_ExtPack_event"
                /\ ev_trace[n].unit = u) => ev_trace[n].ret = 0)

\* set, clear and get of bit 63 were called in a row while bit 0 and bit 16
\* were set, and the get returned 0
C17_Witness ==
    /\ Len(ev_trace) >= 3
    /\ ev_trace[Len(ev_trace) - 2] = [fn |-> "set_ExtPack_event", unit |-> 63, ret |-> 0]
    /\ ev_trace[Len(ev_trace) - 1] = [fn |-> "clear_ExtPack_event", unit |-> 63, ret |-> 0]
    /\ ev_trace[Len(ev_trace)] = [fn |-> "get_ExtPack_event", unit |-> 63, ret |-> 0]
    /\ unit_events = {0, 16}

----------------------------------------------------------------------------
(* Properties of the critical zones *)

\* C18: whatever interrupt handlers run between the statements of the main
\* program, the global interrupt enable flag after its exit_critical_zone is
\* the flag it had right before its enter_critical_zone.
C18_ExitRestoresInterruptFlag ==
    [][(fg_pc = "exit" /\ fg_pc' = "idle") => SREG_I' = fg_call.I_before]_vars

\* C19: with a send buffer, the global interrupt enable flag after a call of
\* send_UART_ExtPack_command is the flag before the call, on the success and
\* on the failure path.
C19_BufferedSendKeepsInterruptFlag ==
    [][(op' = "send" /\ Buffered) => SREG_I' = SREG_I]_vars

\* C20: every write to the event word is made with the global interrupts
\* disabled.
C20_EventWordWrittenInCriticalZone ==
    [][unit_events' # unit_events => ~SREG_I]_vars

----------------------------------------------------------------------------
(* Properties of the registration *)

\* C21: init_ExtPack_Unit(u, t, cb) leaves exactly (t, cb) as the descriptor
\* of u whatever it was before and leaves the descriptors of the other units
\* as they were, a second call with the same arguments changes nothing, and a
\* step that changes a descriptor changes no stored input value, no stored
\* output value and no event bit.
C21_InitUnitOverwritesIdempotent ==
    /\ [](\A u \in InitUnits, t \in RegTypes, cb \in CustomISRs :
             LET once == init_ExtPack_Unit_on(units, u, t, cb) IN
               /\ once[u] = [unit_type |-> t, custom_ISR |-> cb]
               /\ \A o \in 0..(USED_UNITS - 1) : o # u => once[o] = units[o]
               /\ init_ExtPack_Unit_on(once, u, t, cb) = once)
    /\ [][units' # units =>
             /\ unit_data' = unit_data
             /\ unit_events' = unit_events]_vars

\* unit 3 was registered anew over the descriptor with which a pair had been
\* stored for it, next to the registered unit 63, and kept its stored input
\* value and its event bit
C21_Witness ==
    /\ Len(dispatched) = 1
    /\ dispatched[1].unit = 3
    /\ dispatched[1].descr = [unit_type |-> EXTPACK_GPIO_UNIT, custom_ISR |-> 1]
    /\ units[3] = [unit_type |-> EXTPACK_UART_UNIT, custom_ISR |-> NULL]
    /\ units[63] = [unit_type |-> EXTPACK_ACK_UNIT, custom_ISR |-> 1]
    /\ unit_data[3].input_values = dispatched[1].data
    /\ unit_data[3].input_values # 0
    /\ 3 \in unit_events

----------------------------------------------------------------------------
(* Progress of the buffered transmit engine *)

\* ring buffer empty, not between the two bytes of a pair, interrupt disabled
TxIdle ==
    /\ is_buf_empty(send_buf_metadata)
    /\ next_data_to_send_is_buffer_pair = 1
    /\ ~UDRIE0

\* C22: in the buffered variant, when the data-register-empty interrupt is
\* serviced fairly, the n-th accepted command is eventually written to the
\* data register with both of its bytes, and when no further command is
\* accepted the engine eventually is idle with every accepted pair written.
C22_AcceptedEventuallySentThenIdle ==
    \A n \in 1..MaxFairSends :
        /\ (Buffered /\ Len(accepted) >= n)
              ~> (/\ Len(sent) >= 2 * n
                  /\ sent[2 * n - 1] = accepted[n][1]
                  /\ sent[2 * n] = accepted[n][2])
        /\ (Buffered /\ Len(accepted) = n)
              ~> (\/ Len(accepted) > n
                  \/ TxIdle /\ sent = PairBytes(accepted))

\* the buffered engine is idle again after the interrupt handler has written
\* both bytes of three accepted pairs
C22_Witness ==
    /\ Buffered
    /\ Len(accepted) = 3
    /\ sent = PairBytes(accepted)
    /\ TxIdle
    /\ op = "udre_isr"

----------------------------------------------------------------------------
(* The two steps of the receive state machine *)

\* the step appends a received byte to rx_hist
ByteStep ==
    /\ Len(rx_hist') = Len(rx_hist) + 1
    /\ rx_hist'[Len(rx_hist')].kind = "byte"

C24_AwaitDataStep ==
    [][(/\ ByteStep
        /\ recv_state = RECV_DATA_NEXT_STATE
        /\ ~rx_hist'[Len(rx_hist')].err) =>
          /\ recv_state' = RECV_UNIT_NEXT_STATE
          /\ ~TOIE0'
          /\ received_unit' = received_unit
          /\ Len(dispatched') = Len(dispatched) + 1
          /\ \A i \in 1..Len(dispatched) : dispatched'[i] = dispatched[i]
          /\ dispatched'[Len(dispatched')].unit = received_unit
          /\ dispatched'[Len(dispatched')].data = rx_hist'[Len(rx_hist')].data
          /\ ReceivedUnitAt \in 1..Len(rx_hist)
          /\ rx_hist[ReceivedUnitAt].state = RECV_UNIT_NEXT_STATE
          /\ rx_hist[ReceivedUnitAt].data = received_unit]_vars

\* two pairs with different unit and data bytes have been dispatched, each by
\* its data byte
C24_Witness ==
    /\ Len(rx_hist) = 4
    /\ \A n \in 1..4 : CleanByte(n)
    /\ Len(dispatched) = 2
    /\ dispatched[1].at = 2
    /\ dispatched[2].at = 4
    /\ dispatched[1].unit # dispatched[2].unit
    /\ dispatched[1].unit # dispatched[1].data
    /\ dispatched[2].unit = rx_hist[3].data
    /\ dispatched[2].data = rx_hist[4].data
    /\ recv_state = RECV_UNIT_NEXT_STATE
    /\ ~TOIE0

----------------------------------------------------------------------------
(* The three cases of the buffered data-register-empty handler *)

\* the step is a run of the buffered data-register-empty handler
UdreIsrStep == Buffered /\ op' = "udre_isr"

\* the ring buffer entry that the next read_buf returns
HeadEntry == written[Len(readout) + 1]

\* C25: a run of the buffered data-register-empty handler does the one of
\* three things that its entry state selects: (a) between the bytes of a
\* pair it writes next_data_to_send, ends the pair and keeps the interrupt
\* enabled iff the ring buffer is not empty; (b) otherwise, with an entry in
\* the ring buffer, it dequeues the oldest entry, writes its unit byte, keeps
\* its data byte in next_data_to_send, is between the bytes of a pair and
\* keeps the interrupt enabled; (c) otherwise it writes nothing and disables
\* the interrupt.
C25_UdreIsrThreeCases ==
    [][UdreIsrStep =>
          IF next_data_to_send_is_buffer_pair = 0
          THEN /\ sent' = Append(sent, next_data_to_send)
               /\ UDR0' = next_data_to_send
               /\ next_data_to_send_is_buffer_pair' = 1
               /\ UDRIE0' = ~is_buf_empty(send_buf_metadata)
               /\ send_buf_metadata' = send_buf_metadata
               /\ readout' = readout
          ELSE IF ~is_buf_empty(send_buf_metadata)
          THEN /\ readout' = Append(readout, HeadEntry)
               /\ RingContents(send_buf_metadata') = Tail(RingContents(send_buf_metadata))
               /\ sent' = Append(sent, (HeadEntry \div 256) % 256)
               /\ UDR0' = (HeadEntry \div 256) % 256
               /\ next_data_to_send' = HeadEntry % 256
               /\ next_data_to_send_is_buffer_pair' = 0
               /\ UDRIE0'
          ELSE /\ sent' = sent
               /\ UDR0' = UDR0
               /\ ~UDRIE0'
               /\ send_buf_metadata' = send_buf_metadata
               /\ next_data_to_send_is_buffer_pair' = next_data_to_send_is_buffer_pair]_vars

\* the handler has just written the data byte of the first pair while the
\* second pair waits in the ring buffer, so the interrupt is still enabled
C25_Witness ==
    /\ Buffered
    /\ op = "udre_isr"
    /\ Len(accepted) = 2
    /\ Len(sent) = 2
    /\ sent = PairBytes(SubSeq(accepted, 1, 1))
    /\ next_data_to_send_is_buffer_pair = 1
    /\ ~is_buf_empty(send_buf_metadata)
    /\ UDRIE0

----------------------------------------------------------------------------
(* Storage made by the dispatcher for the unit types *)

\* C26: when the error-free pair (u, d) has been dispatched for a unit u that
\* is registered with type UART, the stored input value of u is d.
C26_UartPairStored ==
    [][\A u \in 0..(USED_UNITS - 1), d \in RxBytes :
          (/\ NewDispatch
           /\ dispatched'[Len(dispatched')].unit = u
           /\ dispatched'[Len(dispatched')].data = d
           /\ units[u].unit_type = EXTPACK_UART_UNIT) =>
              get_ExtPack_stored_unit_input_values(u)' = d]_vars

\* C27: when an error-free pair is dispatched for a unit registered as Ack
\* unit, its data byte becomes the stored input value of the unit, bit
\* ACK_EVENT of the unit's output_values is set, and every other bit of
\* output_values, bit ACK_STATE among them, keeps its value.
C27_AckDispatchSetsOnlyEventBit ==
    [][\A u \in 0..(USED_UNITS - 1), d \in RxBytes :
          (/\ NewDispatch
           /\ dispatched'[Len(dispatched')].unit = u
           /\ dispatched'[Len(dispatched')].data = d
           /\ units[u].unit_type = EXTPACK_ACK_UNIT) =>
              /\ unit_data'[u].input_values = d
              /\ \A b \in 0..7 :
                    BitSet(unit_data'[u].output_values, b) <=>
                       (b = ACK_EVENT \/ BitSet(unit_data[u].output_values, b))]_vars

\* a pair was dispatched for an Ack unit whose output_values had bit
\* ACK_STATE and bit 6 set and bit ACK_EVENT clear
C27_Witness ==
    /\ Len(dispatched) = 1
    /\ dispatched[1].unit = 3
    /\ dispatched[1].descr.unit_type = EXTPACK_ACK_UNIT
    /\ unit_data[3].input_values = dispatched[1].data
    /\ unit_data[3].output_values = 65 + 2^ACK_EVENT

----------------------------------------------------------------------------
(* Access-mode bits in received unit bytes *)

\* the unit byte carries access-mode bit 6 or 7
HasAccessMode(unit) == BitSet(unit, ACC_MODE0_BIT) \/ BitSet(unit, ACC_MODE1_BIT)

\* C28: a received pair whose unit byte has access-mode bit 6 or 7 set writes
\* no unit's storage and calls no callback, whatever its address bits and its
\* data byte are: process_received_ExtPack_data does nothing for such a unit
\* byte, the handler of UARTExtPack.c discards the byte that follows it, and
\* no step that dispatches such a pair changes unit_data or calls a callback.
C28_AccessModePairIgnored ==
    /\ [](\A unit \in 0..255, data \in AccBytes :
             HasAccessMode(unit) =>
                /\ process_received_ExtPack_data(unit, data).unit_data = unit_data
                /\ process_received_ExtPack_data(unit, data).custom_ISR = NULL
                /\ \A e1 \in ErrFlags, e2 \in ErrFlags :
                      LET first == UARTExtPack_USART_RX_vect_step(
                                       RECV_UNIT_NEXT_STATE, received_unit, unit, e1)
                          second == UARTExtPack_USART_RX_vect_step(
                                       first.recv_state, first.received_unit, data, e2)
                      IN first.call = <<>> /\ second.call = <<>>)
    /\ [][NewDispatch /\ HasAccessMode(dispatched'[Len(dispatched')].unit) =>
             /\ unit_data' = unit_data
             /\ cb_log' = cb_log]_vars

\* the pair (0x43, d) was dispatched while unit 3 was registered as GPIO unit
\* with a callback: nothing is stored and no callback was called
C28_Witness ==
    /\ Len(dispatched) = 1
    /\ dispatched[1].unit = 67
    /\ dispatched[1].descr = [unit_type |-> EXTPACK_GPIO_UNIT, custom_ISR |-> 1]
    /\ units[3] = dispatched[1].descr
    /\ unit_data[3].input_values = 0
    /\ cb_log = <<>>

----------------------------------------------------------------------------
(* Array indices *)

\* C29: every index that send_to_ExtPack and the dispatcher use on units[]
\* and unit_data[] is below USED_UNITS, and nothing is written behind the
\* end of unit_data[].
C29_ArrayIndexBelowUsedUnits ==
    /\ \A i \in array_index : i < USED_UNITS
    /\ beyond = <<>>

----------------------------------------------------------------------------
(* The event word for all units *)

\* C30: for every unit u in 0..63, set_ExtPack_event(u) sets bit u of the
\* event word and changes no other bit, clear_ExtPack_event(u) clears bit u
\* and changes no other bit, and a get_ExtPack_event(u) called right after
\* returns 1 after the set and 0 after the clear.
C30_EventsForAllUnits ==
    /\ [][\A u \in 0..(USED_UNITS - 1) :
             /\ EvCall("set_ExtPack_event", u) => unit_events' = unit_events \cup {u}
             /\ EvCall("clear_ExtPack_event", u) => unit_events' = unit_events \ {u}]_vars
    /\ [](\A u \in 0..(USED_UNITS - 1) :
             LET n == Len(ev_trace) IN
               (/\ n >= 2
                /\ ev_trace[n].fn = "get_ExtPack_event"
                /\ ev_trace[n].unit = u
                /\ ev_trace[n - 1].unit = u) =>
                   /\ ev_trace[n - 1].fn = "set_ExtPack_event" => ev_trace[n].ret = 1
                   /\ ev_trace[n - 1].fn = "clear_ExtPack_event" => ev_trace[n].ret = 0)

----------------------------------------------------------------------------
(* Acknowledgement events *)

\* C31: a get_ExtPack_ack_event call never clears an ack event that the
\* receive path has set and returns 0: when its clear_ExtPack_event finds
\* the event of unit_U02 set, the call returns 1.
C31_AckEventNotLost ==
    [][(/\ fg_pc = "ack_clear"
        /\ fg_pc' = "idle"
        /\ get_ExtPack_event(unit_U02) = 1) => ret' = 1]_vars

----------------------------------------------------------------------------
(* Stored output values of the unit helpers *)

\* get_ExtPack_data_gpio_out(unit)
get_ExtPack_data_gpio_out(unit) == get_ExtPack_stored_unit_output_values(unit)

\* C32: after a set_ExtPack_gpio_out(u, d) call that returns
\* EXT_PACK_SUCCESS the stored output value of u is d, and a call that
\* returns EXT_PACK_FAILURE leaves the stored output value as it was.
C32_GpioOutIsLastSentValue ==
    [][\A u \in RegUnits :
          EvCall("set_ExtPack_gpio_out", u) =>
              IF ret' = EXT_PACK_SUCCESS
              THEN get_ExtPack_data_gpio_out(u)' = written'[Len(written')] % 256
              ELSE get_ExtPack_data_gpio_out(u)' = get_ExtPack_data_gpio_out(u)]_vars

\* C33: after a successful send_to_ExtPack of data to the unit registered as
\* Ack unit, bit ACK_STATE of its stored output value is 1 when data > 0 and
\* 0 when data = 0, and bit 7 of the stored output value is as it was.
C33_AckStateBitFollowsEnable ==
    [][\A unit \in RegUnits :
          (/\ units[unit].unit_type = EXTPACK_ACK_UNIT
           /\ ret' = EXT_PACK_SUCCESS
           /\ Len(written') = Len(written) + 1
           /\ written'[Len(written')] \div 256 = unit) =>
              /\ BitSet(unit_data'[unit].output_values, ACK_STATE)
                    = (written'[Len(written')] % 256 > 0)
              /\ BitSet(unit_data'[unit].output_values, 7)
                    = BitSet(unit_data[unit].output_values, 7)]_vars

----------------------------------------------------------------------------
(* Strings *)

\* index of the terminating '\0' of the string in the memory data
strlen(data) ==
    (CHOOSE i \in 1..Len(data) :
        data[i] = 0 /\ \A j \in 1..(i - 1) : data[j] # 0) - 1

\* C34: send_String_to_ExtPack submits the characters in front of the '\0'
\* in order, one submit per character and none behind a failed submit; it
\* returns EXT_PACK_FAILURE at the first failed submit and EXT_PACK_SUCCESS
\* iff every character in front of the '\0' was submitted successfully.
C34_StringSubmittedInOrder ==
    fg_call.fn = "send_String_to_ExtPack" =>
        LET data == fg_call.data
            submitted == fg_call.submitted
            n == Len(submitted)
            AllBut(k) == \A i \in 1..(n - k) : submitted[i].ret = EXT_PACK_SUCCESS
        IN /\ n <= strlen(data)
           /\ \A i \in 1..n : /\ submitted[i].data = data[i]
                              /\ submitted[i].unit = fg_call.unit
           /\ fg_call.read \subseteq 0..strlen(data)
           /\ AllBut(1)
           /\ fg_pc = "string_loop" => AllBut(0)
           /\ fg_pc = "string_done" =>
                 /\ fg_call.ret \in {EXT_PACK_SUCCESS, EXT_PACK_FAILURE}
                 /\ fg_call.ret = ret
                 /\ fg_call.ret = EXT_PACK_FAILURE <=>
                       (n > 0 /\ submitted[n].ret = EXT_PACK_FAILURE)
                 /\ fg_call.ret = EXT_PACK_SUCCESS <=>
                       (n = strlen(data) /\ AllBut(0))

C34_Witness ==
    /\ fg_pc = "string_done"
    /\ fg_call.fn = "send_String_to_ExtPack"
    /\ Len(fg_call.submitted) = 2
    /\ fg_call.data[3] # 0
    /\ fg_call.submitted[1].ret = EXT_PACK_SUCCESS
    /\ fg_call.submitted[2].ret = EXT_PACK_FAILURE

\* the submits of the call in fg_call that succeeded
Succeeded(entry) == entry.ret = EXT_PACK_SUCCESS

\* C35: when the send_String_to_ExtPack with retries returns
\* EXT_PACK_SUCCESS, the successful submits are the characters in front of
\* the '\0', each once and in order, and no byte at or behind the '\0' has
\* been sent and no byte behind it has been read.
C35_RetryResendsSameCharacter ==
    (/\ fg_pc = "retry_done"
     /\ fg_call.fn = "UARTExtPack_send_String_to_ExtPack"
     /\ fg_call.ret = EXT_PACK_SUCCESS) =>
        LET data == fg_call.data
            done == SelectSeq(fg_call.submitted, Succeeded)
        IN /\ Len(done) = strlen(data)
           /\ \A i \in 1..Len(done) : done[i].data = data[i]
           /\ \A i \in 1..Len(fg_call.submitted) :
                 fg_call.submitted[i].index < strlen(data)
           /\ fg_call.read \subseteq 0..strlen(data)

\* C36: a set_ExtPack_SRAM_address(unit, a, delay) call whose submits all
\* succeed has submitted the address reset (access mode 0, data 0) and then
\* the four bytes of a, lowest first, each with access mode 1.
C36_SramAddressFourBytes ==
    (/\ fg_pc = "string_done"
     /\ fg_call.fn = "set_ExtPack_SRAM_address"
     /\ fg_call.ret = EXT_PACK_SUCCESS) =>
        LET submitted == fg_call.submitted
            unit == fg_call.unit
        IN /\ Len(submitted) = 5
           /\ submitted[1].unit = set_ExtPack_access_mode(unit, 0)
           /\ submitted[1].data = 0
           /\ \A k \in 0..3 :
                 /\ submitted[k + 2].unit = set_ExtPack_access_mode(unit, 1)
                 /\ submitted[k + 2].data = AddressByte(fg_call.address, k)

----------------------------------------------------------------------------
(* Access modes *)

\* the access mode that a helper means by its literal: the digits of 00, 01,
\* 10 and 11 read as the two access-mode bits
IntendedAccessMode(fn) ==
    CASE fn = "set_ExtPack_timer_enable" -> 0
      [] fn = "restart_ExtPack_timer" -> 1
      [] fn = "set_ExtPack_timer_prescaler" -> 2
      [] fn = "receive_ExtPack_I2C_data" -> 2
      [] fn = "set_ExtPack_timer_start_value" -> 3

AccessModeHelpers ==
    {"set_ExtPack_timer_enable", "restart_ExtPack_timer",
     "set_ExtPack_timer_prescaler", "receive_ExtPack_I2C_data",
     "set_ExtPack_timer_start_value"}

\* C37: the unit byte that a timer or I2C helper submits for a unit 0..63 is
\* a byte whose bits 0..5 are the unit address and whose bits 6..7 are the
\* access mode the helper means (0, 1, 2, 3 for the literals 00, 01, 10, 11),
\* and the same byte is the unit byte accepted by the link layer.
C37_AccessModeBits ==
    fg_call.fn \in AccessModeHelpers =>
        LET unit_byte == fg_call.submitted[1].unit IN
        /\ unit_byte \in 0..255
        /\ unit_byte % 64 = fg_call.unit
        /\ unit_byte \div 64 = IntendedAccessMode(fg_call.fn)
        /\ fg_call.submitted[1].ret = EXT_PACK_SUCCESS
        /\ written[1] \div 256 = unit_byte

C37_Witness ==
    /\ fg_call.fn = "set_ExtPack_timer_start_value"
    /\ fg_call.unit = 63
    /\ fg_call.access_mode = 11
    /\ fg_call.submitted[1].unit = 255
    /\ sent # <<>>

----------------------------------------------------------------------------
(* Watchdog *)

\* places in rx_hist of the timer overflow interrupts served
Timeouts == {i \in 1..Len(rx_hist) : rx_hist[i].kind = "timeout"}

\* places in rx_hist of the bytes taken in AwaitUnit, which arm the watchdog
Armings ==
    {i \in 1..Len(rx_hist) :
        rx_hist[i].kind = "byte" /\ rx_hist[i].state = RECV_UNIT_NEXT_STATE}

\* C38: between the interrupt handlers the timer overflow interrupt is enabled
\* iff recv_state is not AwaitUnit; no overflow interrupt is served in
\* AwaitUnit, and between two overflow interrupts served there is a byte
\* taken in AwaitUnit that armed the watchdog again.
C38_WatchdogEnabledIffNotAwaitUnit ==
    /\ TOIE0 <=> recv_state # RECV_UNIT_NEXT_STATE
    /\ \A i \in Timeouts : rx_hist[i].state # RECV_UNIT_NEXT_STATE
    /\ \A i \in Timeouts : \E k \in Armings :
          k < i /\ \A j \in Timeouts : ~(k < j /\ j < i)

\* the watchdog has fired once in AwaitData and once in ResyncDiscard, and it
\* is armed for the third time
C38_Witness ==
    /\ \E i \in Timeouts : rx_hist[i].state = RECV_DATA_NEXT_STATE
    /\ \E i \in Timeouts : rx_hist[i].state = RECV_INVALID_UNIT
    /\ TOIE0
    /\ recv_state = RECV_DATA_NEXT_STATE

----------------------------------------------------------------------------
(* Receive interrupts inside a custom_ISR *)

\* C39: while a custom_ISR that has enabled interrupts runs, the handler that
\* called it has left recv_state at AwaitUnit and the watchdog disarmed unless
\* a byte has come since; the first byte received inside it is taken in
\* AwaitUnit as a unit byte and dispatches nothing; and the arguments of the
\* custom_ISR and of the dispatch in progress stay as they were passed, up to
\* its return.
C39_NestedByteStartsFreshPair ==
    /\ [](custom_ISR_frame # <<>> =>
            LET frame == custom_ISR_frame[1] IN
            /\ rx_hist[frame.at].next = RECV_UNIT_NEXT_STATE
            /\ rx_hist[frame.at].toie = FALSE
            /\ Len(rx_hist) = frame.at =>
                  recv_state = RECV_UNIT_NEXT_STATE /\ ~TOIE0
            /\ Len(rx_hist) > frame.at =>
                  /\ rx_hist[frame.at + 1].kind = "byte"
                  /\ rx_hist[frame.at + 1].state = RECV_UNIT_NEXT_STATE
                  /\ \A i \in 1..Len(dispatched) :
                        dispatched[i].at # frame.at + 1
            /\ dispatched[frame.dispatch].unit = frame.unit
            /\ dispatched[frame.dispatch].data = frame.data
            /\ dispatched[frame.dispatch].at = frame.at)
    /\ [][custom_ISR_frame # <<>> =>
            \/ custom_ISR_frame' = custom_ISR_frame
            \/ /\ custom_ISR_frame' = <<>>
               /\ ev_trace'[Len(ev_trace')] =
                     [fn |-> "unit_U03_custom_ISR",
                      unit |-> dispatched[custom_ISR_frame[1].dispatch].unit,
                      ret |-> dispatched[custom_ISR_frame[1].dispatch].data]]_vars

\* a whole pair was received inside the custom_ISR, which changed the global
\* received_unit, and the custom_ISR has returned
C39_Witness ==
    /\ custom_ISR_frame = <<>>
    /\ ev_trace # <<>>
    /\ ev_trace[Len(ev_trace)].fn = "unit_U03_custom_ISR"
    /\ ev_trace[Len(ev_trace)].unit = 3
    /\ received_unit = 65
    /\ Len(rx_hist) = 4
    /\ \A i \in 1..4 : rx_hist[i].kind = "byte"

----------------------------------------------------------------------------
(* Data-register-empty interrupt of the buffered engine *)

\* C40: with a ring buffer, between the critical section of
\* send_UART_ExtPack_command and the handlers, the data-register-empty
\* interrupt is enabled whenever the ring buffer holds an entry or the data
\* byte of a pair is still to be written (next_data_to_send_is_buffer_pair
\* is 0); when it is disabled nothing remains to be written.
C40_UdrieEnabledWhileWorkRemains ==
    Buffered =>
        /\ (~is_buf_empty(send_buf_metadata)
               \/ next_data_to_send_is_buffer_pair = 0) => UDRIE0
        /\ ~UDRIE0 => sent = PairBytes(accepted)

\* the interrupt is enabled for the data byte alone, enabled with entries
\* waiting, and disabled after everything was written: here the buffer is
\* empty and the data byte of the second pair is still to be written
C40_Witness ==
    /\ Buffered
    /\ Len(accepted) = 2
    /\ Len(sent) = 3
    /\ is_buf_empty(send_buf_metadata)
    /\ next_data_to_send_is_buffer_pair = 0
    /\ UDRIE0

====
